---- MODULE Spec2Model ----
(***************************************************************************)
(* Adaptive concurrent batch orchestrator of the Riposte annotate CLI.     *)
(*                                                                         *)
(*   Spec         riposte-cli: process_images / process_single_image       *)
(*                (commands/annotate.py) driving the Concurrency Limiter    *)
(*   SpecLimiter  the Concurrency Limiter API called in arbitrary order      *)
(*   SpecMMM      meme-my-mood-cli: the sequential retry loop of            *)
(*                process_images driving the shared RateLimiter             *)
(*   SpecRerun    annotate run after run over one folder: the filter on     *)
(*                sidecars, deduplicate_images and the hash manifest        *)
(*   SpecDedupe   dedupe run after run over one folder (commands/dedupe.py)  *)
(*   SpecItem     one work item: the responses of the remote service as     *)
(*                analyze_image_async / analyze_image classify them         *)
(*   SpecRate     the RateLimiter of copilot.py called in arbitrary order   *)
(*   SpecWait     workers of one event loop inside wait_if_needed           *)
(*   SpecHash     hamming_distance and are_similar_images on any two hashes *)
(*   SpecManifest save_hash_manifest / load_hash_manifest over one folder   *)
(*   SpecReport   one failed remote call from analyze_image_async to the    *)
(*                except clause of the retry loop                           *)
(*   SpecPause    workers, the limiter and its pauses on a clock;           *)
(*                SpecPauseFair is SpecPause under fair scheduling          *)
(*                                                                         *)
(* The ConcurrencyLimiter class itself is not part of the source tree       *)
(* (only its callers and tests are); its operations are written from the   *)
(* specification, section 4.3.  Every `await limiter.x()` of the caller is  *)
(* a suspension point that precedes the (serialized, atomic) effect of x;   *)
(* a CancelledError is delivered to a task at the suspension point it is    *)
(* waiting at.  Wait durations are abstracted: a pause or a sleep lasts     *)
(* some positive time and ends by its own step.                             *)
(***************************************************************************)
EXTENDS Integers, FiniteSets, Sequences, TLC

\* ---------------------------------------------------------------- bounds
NumTasks == 3          \* work items fanned out by one batch
maxConcurrency == 2    \* --concurrency of the batch
MaxPool == 3           \* SpecLimiter: largest max_concurrency a limiter is built with
MaxFaults == 5         \* error responses of the remote service in one batch
MaxFailures == 6       \* SpecLimiter: cap on the failures recorded in a row
NumImages == 2         \* SpecMMM: images of the sequential batch
NumFiles == 3          \* SpecRerun: image files of the folder
NumContents == 3       \* SpecRerun: distinct file contents
MaxRuns == 2           \* SpecRerun: annotate runs over the same folder
similarityThreshold == 1  \* SpecRerun: --similarity-threshold of the runs
MaxBackoffRun == 9     \* SpecRate: cap on the failures recorded in a row
error_window == 3      \* SpecRate: outcomes recent_results keeps
NumWorkers == 2        \* SpecWait: workers sharing the RateLimiter
MaxWaitCalls == 2      \* SpecWait: wait_if_needed calls of one worker
MaxClock == 40         \* SpecWait: the clock stops here (tenths of a second)
ClockTick == 5         \* SpecWait: step of the clock (tenths of a second)
MaxHashBytes == 2      \* SpecHash: bytes of the longest hash compared
MaxStamp == 2          \* SpecManifest: the clock of the timestamps stops here
MaxFailedCalls == 3    \* SpecReport: cap on the failed remote calls in a row
NumAcquirers == 3      \* SpecPause: workers of the batch, more than maxConcurrency
MaxPauseFaults == 2    \* SpecPause: error responses of the remote service

\* ------------------------------------------------------ program constants
minConcurrency == 1
max_retries == 5
max_backoff_attempts == 8
restoreThreshold == 3
serverErrorThreshold == 3
min_delay == 10        \* 1.0 s, in tenths of a second
max_delay == 3000      \* 300.0 s
initial_delay == 10    \* current_delay after construction, 1.0 s
base_backoff == 2
error_threshold_percent == 30
jitter_percent == 25   \* jitter_factor 0.25

Tasks == 1..NumTasks
Images == 1..NumImages

Outcomes == {"ok", "ratelimit", "server", "other", "auth"}
Retryable == {"ratelimit", "server"}

VARIABLES
    \* ConcurrencyLimiterState
    poolMax, currentConcurrency, activeTasks, isPaused,
    successesSinceReduction, consecutiveServerErrors,
    \* RateLimiter wrapped by the limiter
    consecutiveFailures,
    \* one Retry Orchestrator (process_single_image) per task
    pc, attempt, acquired, outcome, result, calls, sidecar,
    cancelPending, cancelledAt, slots,
    \* Batch Coordinator (process_images) and the summary of annotate
    mainPc, report,
    \* error responses given by the remote service so far
    faults,
    \* SpecLimiter: the last API call and the state it started from
    lastOp, prevConcurrency, prevSuccesses, prevServerErrors, prevActive,
    prevPaused,
    \* SpecMMM: the sequential loop of meme-my-mood-cli
    m_image, m_attempt, m_failures, m_status, m_calls,
    \* SpecRerun: the folder, the hash manifest and the runs of annotate
    d_sameDir, d_bytes, d_sidecars, d_manifest, d_phase, d_run, d_work,
    d_todo, d_unfinished,
    \* the manifest file of the output folder, and of the last run: the
    \* manifest as loaded, the candidate images, how the duplicates were
    \* classified
    d_file, d_loaded, d_cands, d_exact, d_near,
    \* the image files still in the folder, the contents that cannot be
    \* decoded as an image, whether the last run looked for near duplicates
    d_present, d_undecodable, d_detectNear,
    \* SpecItem: one work item and the responses of the remote service
    i_attempt, i_calls, i_status, i_resp, i_class, i_mresp, i_mclass,
    \* SpecRate: one RateLimiter, its settings and the last wait it returned
    r_min, r_max, r_delay, r_failures, r_wait, r_op,
    \* recent_results; and what the last calls were given and did: the hint,
    \* the jitter-free wait of the last two failures, the delay a success
    \* found, the failures recorded since the last success
    r_window, r_hint, r_base, r_prevBase, r_before, r_run,
    \* SpecWait: the clock, last_request_time and the workers inside
    \* wait_if_needed; the time of the last request let through and the gap
    \* to the one before
    w_clock, w_last, w_pc, w_wake, w_calls, w_prevIssue, w_gap,
    \* SpecHash: two perceptual hashes, a threshold, and what
    \* hamming_distance and are_similar_images returned for them
    h_1, h_2, h_threshold, h_distance, h_similar, h_done,
    \* SpecManifest: the manifest in memory, the manifest file, the manifest
    \* handed to the last save, the last operation, the clock
    j_manifest, j_file, j_saved, j_op, j_now,
    \* SpecReport: one worker between its remote call and the except
    \* clause of the retry loop; consecutive_failures of the module-level
    \* RateLimiter of copilot.py and of a RateLimiter of the limiter's own;
    \* whether the limiter wraps the module-level one; retry_after of the
    \* exception; the hint the limiter was given; the wait it returned; the
    \* failed remote calls since the last success
    f_pc, f_failures, f_own, f_wraps, f_retry_after, f_passed, f_wait,
    f_failedCalls,
    \* SpecPause: the clock, the resume deadline of the pause, the workers,
    \* the start and the end of each worker's last cool-down, the error
    \* responses given so far
    p_now, p_resumeAt, p_pc, p_since, p_until, p_faults

limiterVars == <<poolMax, currentConcurrency, activeTasks, isPaused,
                 successesSinceReduction, consecutiveServerErrors,
                 consecutiveFailures>>
localVars == <<pc, attempt, acquired, outcome, result, calls>>
taskVars == <<localVars, sidecar, cancelPending, cancelledAt, slots>>
ghostVars == <<lastOp, prevConcurrency, prevSuccesses, prevServerErrors,
               prevActive, prevPaused>>
mmmVars == <<m_image, m_attempt, m_failures, m_status, m_calls>>
rerunVars == <<d_sameDir, d_bytes, d_sidecars, d_manifest, d_phase, d_run,
               d_work, d_todo, d_unfinished, d_file, d_loaded, d_cands,
               d_exact, d_near, d_present, d_undecodable, d_detectNear>>
itemVars == <<i_attempt, i_calls, i_status, i_resp, i_class, i_mresp, i_mclass>>
rateVars == <<r_min, r_max, r_delay, r_failures, r_wait, r_op, r_window,
              r_hint, r_base, r_prevBase, r_before, r_run>>
waitVars == <<w_clock, w_last, w_pc, w_wake, w_calls, w_prevIssue, w_gap>>
hashVars == <<h_1, h_2, h_threshold, h_distance, h_similar, h_done>>
jsonVars == <<j_manifest, j_file, j_saved, j_op, j_now>>
\* the variables of the specifications that follow SpecHash
failVars == <<f_pc, f_failures, f_own, f_wraps, f_retry_after, f_passed, f_wait,
             f_failedCalls>>
pauseVars == <<p_now, p_resumeAt, p_pc, p_since, p_until, p_faults>>
auxVars == <<jsonVars, failVars, pauseVars>>
otherVars == <<report, ghostVars, mmmVars, rerunVars, itemVars, rateVars,
               waitVars, hashVars, auxVars>>
vars == <<limiterVars, taskVars, mainPc, report, faults, ghostVars, mmmVars,
          rerunVars, itemVars, rateVars, waitVars, hashVars, auxVars>>

\* ------------------------------------------------------------ RateLimiter
Max2(a, b) == IF a > b THEN a ELSE b

\* RateLimiter.record_success: the failure run is reset
rl_record_success(f) == 0

\* RateLimiter.record_failure: one more failure in a row
rl_record_failure(f) == f + 1

\* variant: giving up one failure late
should_give_up_late(f) == f > max_backoff_attempts

\* RateLimiter.should_give_up
should_give_up(f) == f >= max_backoff_attempts

\* ----------------------------------------------------- ConcurrencyLimiter
\* variant: acquire() that looks at the free slots only
can_acquire_ignoring_pause(active, limit, paused) == active < limit

\* acquire() may complete: a slot is free and the limiter is not paused
can_acquire(active, limit, paused) == active < limit /\ ~paused

\* variant: a reduction without the floor
reduced_no_floor(c) == c - 1

\* variant: a reduction that halves the pool
reduced_by_half(c) == IF c \div 2 < minConcurrency THEN minConcurrency ELSE c \div 2

\* currentConcurrency after a reduction: one less, floored at minConcurrency
reduced(c) == IF c - 1 < minConcurrency THEN minConcurrency ELSE c - 1

\* currentConcurrency after a restoration: one more, capped at max_concurrency
restored(c) == IF c + 1 > poolMax THEN poolMax ELSE c + 1

\* variant: the pool shrinks one server error early
server_error_reduces_early(n) == n + 1 >= serverErrorThreshold

\* the n-th server error in a row shrinks the pool
server_error_reduces(n) == n >= serverErrorThreshold

\* variant: a slot is restored one success early
restore_due_early(s) == s + 1 >= restoreThreshold

\* the s-th success since the last change of the pool size restores a slot
restore_due(s) == s >= restoreThreshold

\* acquire(): the effect once the wait is over
lim_acquire ==
    /\ can_acquire(activeTasks, currentConcurrency, isPaused)
    /\ activeTasks' = activeTasks + 1
    /\ UNCHANGED <<poolMax, currentConcurrency, isPaused, successesSinceReduction,
                   consecutiveServerErrors, consecutiveFailures>>

\* release()
lim_release ==
    /\ activeTasks' = activeTasks - 1
    /\ UNCHANGED <<poolMax, currentConcurrency, isPaused, successesSinceReduction,
                   consecutiveServerErrors, consecutiveFailures>>

\* variant: a success counter that survives a change of the pool size
successes_after_change_kept(s) == s

\* the success counter once currentConcurrency has been changed
successes_after_change(s) == 0

\* recordSuccess()
lim_record_success ==
    /\ consecutiveFailures' = rl_record_success(consecutiveFailures)
    /\ consecutiveServerErrors' = 0
    /\ IF currentConcurrency < poolMax
       THEN IF restore_due(successesSinceReduction + 1)
            THEN /\ currentConcurrency' = restored(currentConcurrency)
                 /\ successesSinceReduction' =
                       successes_after_change(successesSinceReduction + 1)
            ELSE /\ currentConcurrency' = currentConcurrency
                 /\ successesSinceReduction' = successesSinceReduction + 1
       ELSE /\ currentConcurrency' = currentConcurrency
            /\ successesSinceReduction' = 0
    /\ UNCHANGED <<poolMax, activeTasks, isPaused>>

\* recordRateLimit(): consult the rate limiter, pause, shrink the pool by one
lim_record_rate_limit ==
    /\ consecutiveFailures' = rl_record_failure(consecutiveFailures)
    /\ isPaused' = TRUE
    /\ currentConcurrency' = reduced(currentConcurrency)
    /\ successesSinceReduction' = successes_after_change(successesSinceReduction)
    /\ consecutiveServerErrors' = 0
    /\ UNCHANGED <<poolMax, activeTasks>>

\* recordServerError(): consult the rate limiter, pause, shrink the pool on
\* the serverErrorThreshold-th server error in a row
lim_record_server_error ==
    /\ consecutiveFailures' = rl_record_failure(consecutiveFailures)
    /\ isPaused' = TRUE
    /\ consecutiveServerErrors' = consecutiveServerErrors + 1
    /\ currentConcurrency' =
         IF server_error_reduces(consecutiveServerErrors + 1)
         THEN reduced(currentConcurrency) ELSE currentConcurrency
    /\ successesSinceReduction' = 0
    /\ UNCHANGED <<poolMax, activeTasks>>

\* the resume deadline of the pause is reached
lim_resume ==
    /\ isPaused
    /\ isPaused' = FALSE
    /\ UNCHANGED <<poolMax, currentConcurrency, activeTasks, successesSinceReduction,
                   consecutiveServerErrors, consecutiveFailures>>

\* -------------------------------------- process_single_image (riposte-cli)
Terminal(t) == pc[t] \in {"done", "cancelled"}

\* the event loop is running: no task has called sys.exit(1)
Alive == mainPc # "aborted"

\* variant: the handlers compare the attempt index itself with the bound
exhausted_off_by_one(a) == a >= max_retries

\* `if attempt + 1 >= max_retries` of the RateLimitError / ServerError handlers
exhausted(a) == a + 1 >= max_retries

\* variant: a CancelledError handler that releases whatever `acquired` says
handler_releases_always(acq) == TRUE

\* `if acquired: await limiter.release()` of the CancelledError handler
handler_releases(acq) == acq

\* `for attempt in range(max_retries)`: there is another iteration after a
last_iteration(a) == a + 1 >= max_retries

\* terminal status of a work item
Status(t) ==
    IF pc[t] = "cancelled" THEN "Cancelled"
    ELSE IF pc[t] = "done" THEN (IF result[t] = "ok" THEN "Succeeded" ELSE "Failed")
    ELSE "Pending"

\* the task moves to program point p; its locals stay as they are
Goto(t, p) ==
    /\ pc' = [pc EXCEPT ![t] = p]
    /\ UNCHANGED <<attempt, acquired, outcome, result, calls>>

\* the coroutine ends at p ("done": it returned (image_path, r), r = "ok"
\* standing for the sidecar path; "cancelled": CancelledError left it); its
\* locals are gone
Leave(t, p, r) ==
    /\ pc' = [pc EXCEPT ![t] = p]
    /\ result' = [result EXCEPT ![t] = r]
    /\ attempt' = [attempt EXCEPT ![t] = 0]
    /\ acquired' = [acquired EXCEPT ![t] = FALSE]
    /\ outcome' = [outcome EXCEPT ![t] = "none"]
    /\ calls' = [calls EXCEPT ![t] = 0]

\* end of one iteration of `for attempt in range(max_retries)` after a
\* retryable error the handler did not return on
NextAttempt(t) ==
    IF last_iteration(attempt[t])
    THEN Leave(t, "done", "exhausted")
    ELSE /\ attempt' = [attempt EXCEPT ![t] = attempt[t] + 1]
         /\ pc' = [pc EXCEPT ![t] = "acquiring"]
         /\ acquired' = [acquired EXCEPT ![t] = FALSE]
         /\ UNCHANGED <<outcome, result, calls>>

\* the task is scheduled for the first time and runs to `await limiter.acquire()`
Start(t) ==
    /\ Alive /\ pc[t] = "pending" /\ ~cancelPending[t]
    /\ Goto(t, "acquiring")
    /\ UNCHANGED <<limiterVars, sidecar, cancelPending, cancelledAt, slots,
                   mainPc, faults, otherVars>>

\* limiter.acquire() returns; acquired = True; the remote call is issued
Acquire(t) ==
    /\ Alive /\ pc[t] = "acquiring" /\ ~cancelPending[t]
    /\ lim_acquire
    /\ acquired' = [acquired EXCEPT ![t] = TRUE]
    /\ slots' = [slots EXCEPT ![t] = slots[t] + 1]
    /\ calls' = [calls EXCEPT ![t] = calls[t] + 1]
    /\ pc' = [pc EXCEPT ![t] = "inflight"]
    /\ UNCHANGED <<attempt, outcome, result, sidecar, cancelPending,
                   cancelledAt, mainPc, faults, otherVars>>

\* analyze_image_async returns or raises; the finally block awaits release()
Respond(t, o) ==
    /\ Alive /\ pc[t] = "inflight" /\ ~cancelPending[t]
    /\ IF o = "ok" THEN faults' = faults
       ELSE faults < MaxFaults /\ faults' = faults + 1
    /\ outcome' = [outcome EXCEPT ![t] = o]
    /\ pc' = [pc EXCEPT ![t] = "releasing"]
    /\ UNCHANGED <<limiterVars, attempt, acquired, result, calls, sidecar,
                   cancelPending, cancelledAt, slots, mainPc, otherVars>>

\* release() of the finally block takes effect; acquired = False; then the
\* rest of the try body or the except clause that matches the outcome
Release(t) ==
    /\ Alive /\ pc[t] = "releasing" /\ ~cancelPending[t]
    /\ lim_release
    /\ slots' = [slots EXCEPT ![t] = slots[t] - 1]
    /\ CASE outcome[t] = "ok" ->
              \* the sidecar is written, then `await limiter.record_success()`
              /\ sidecar' = [sidecar EXCEPT ![t] = TRUE]
              /\ pc' = [pc EXCEPT ![t] = "rec_success"]
              /\ acquired' = [acquired EXCEPT ![t] = FALSE]
              /\ UNCHANGED <<attempt, outcome, result, calls>>
         [] outcome[t] = "ratelimit" ->
              /\ pc' = [pc EXCEPT ![t] = "rec_ratelimit"]
              /\ acquired' = [acquired EXCEPT ![t] = FALSE]
              /\ UNCHANGED <<attempt, outcome, result, calls, sidecar>>
         [] outcome[t] = "server" ->
              /\ pc' = [pc EXCEPT ![t] = "rec_server"]
              /\ acquired' = [acquired EXCEPT ![t] = FALSE]
              /\ UNCHANGED <<attempt, outcome, result, calls, sidecar>>
         [] outcome[t] = "other" ->
              \* except CopilotError / except Exception
              /\ Leave(t, "done", "other")
              /\ UNCHANGED sidecar
         [] outcome[t] = "auth" ->
              \* except CopilotNotAuthenticatedError: sys.exit(1)
              /\ Leave(t, "exited", "auth")
              /\ UNCHANGED sidecar
         [] outcome[t] = "cancel" ->
              \* CancelledError from the remote call: the handler finds
              \* acquired = False and re-raises
              /\ Leave(t, "cancelled", "none")
              /\ UNCHANGED sidecar
    /\ mainPc' = IF outcome[t] = "auth" THEN "aborted" ELSE mainPc
    /\ UNCHANGED <<cancelPending, cancelledAt, faults, otherVars>>

\* release() of the CancelledError handler takes effect; the error is re-raised
HandlerRelease(t) ==
    /\ Alive /\ pc[t] = "h_releasing" /\ ~cancelPending[t]
    /\ lim_release
    /\ slots' = [slots EXCEPT ![t] = slots[t] - 1]
    /\ Leave(t, "cancelled", "none")
    /\ UNCHANGED <<sidecar, cancelPending, cancelledAt, mainPc, faults,
                   otherVars>>

\* limiter.record_success() takes effect; return (image_path, sidecar_path)
RecordSuccess(t) ==
    /\ Alive /\ pc[t] = "rec_success" /\ ~cancelPending[t]
    /\ lim_record_success
    /\ Leave(t, "done", "ok")
    /\ UNCHANGED <<sidecar, cancelPending, cancelledAt, slots, mainPc, faults,
                   otherVars>>

\* except RateLimitError: record_rate_limit(), then give up or loop
RecordRateLimit(t) ==
    /\ Alive /\ pc[t] = "rec_ratelimit" /\ ~cancelPending[t]
    /\ lim_record_rate_limit
    /\ IF exhausted(attempt[t])
       THEN Leave(t, "done", outcome[t])
       ELSE NextAttempt(t)
    /\ UNCHANGED <<sidecar, cancelPending, cancelledAt, slots, mainPc, faults,
                   otherVars>>

\* except ServerError: record_server_error(), then give up or sleep
RecordServerError(t) ==
    /\ Alive /\ pc[t] = "rec_server" /\ ~cancelPending[t]
    /\ lim_record_server_error
    /\ IF exhausted(attempt[t])
       THEN Leave(t, "done", outcome[t])
       ELSE Goto(t, "sleeping")
    /\ UNCHANGED <<sidecar, cancelPending, cancelledAt, slots, mainPc, faults,
                   otherVars>>

\* asyncio.sleep(wait_time) of the ServerError handler is over
Wake(t) ==
    /\ Alive /\ pc[t] = "sleeping" /\ ~cancelPending[t]
    /\ NextAttempt(t)
    /\ UNCHANGED <<limiterVars, sidecar, cancelPending, cancelledAt, slots,
                   mainPc, faults, otherVars>>

\* a CancelledError is raised in the task at the await it is suspended at
CancelDelivered(t) ==
    /\ Alive /\ cancelPending[t] /\ ~Terminal(t)
    /\ cancelPending' = [cancelPending EXCEPT ![t] = FALSE]
    /\ cancelledAt' = [cancelledAt EXCEPT ![t] =
                          IF pc[t] = "acquiring" THEN "acquire"
                          ELSE IF acquired[t] THEN "holding" ELSE "free"]
    /\ CASE pc[t] = "inflight" ->
              \* raised inside analyze_image_async: the finally block runs
              /\ outcome' = [outcome EXCEPT ![t] = "cancel"]
              /\ pc' = [pc EXCEPT ![t] = "releasing"]
              /\ UNCHANGED <<attempt, acquired, result, calls>>
         [] pc[t] \in {"releasing", "acquiring"} ->
              \* raised inside release() of the finally block, before
              \* `acquired = False`, or inside acquire(), before
              \* `acquired = True`: the handler decides on `acquired`
              IF handler_releases(acquired[t])
              THEN Goto(t, "h_releasing")
              ELSE Leave(t, "cancelled", "none")
         [] OTHER ->
              \* pending: the coroutine never runs; h_releasing and the
              \* awaits of the other handlers: nothing catches the error
              Leave(t, "cancelled", "none")
    /\ UNCHANGED <<limiterVars, sidecar, slots, mainPc, faults, otherVars>>

\* the resume deadline set by record_rate_limit / record_server_error passes
PauseElapsed ==
    /\ Alive
    /\ lim_resume
    /\ UNCHANGED <<taskVars, mainPc, faults, otherVars>>

\* ------------------------------------------------ process_images (riposte)
\* SIGINT: asyncio cancels the main task, which cancels the gather future and
\* with it every child that is not done
Interrupt ==
    /\ mainPc = "gather"
    /\ \E t \in Tasks : ~Terminal(t)
    /\ cancelPending' = [t \in Tasks |-> ~Terminal(t)]
    /\ mainPc' = "gather_cancelled"
    /\ UNCHANGED <<limiterVars, localVars, sidecar, cancelledAt, slots, faults,
                   otherVars>>

\* gather raises CancelledError as soon as one child ended cancelled; the
\* except clause cancels every task that is not done and gathers again
HandleInterrupt ==
    /\ mainPc = "gather_cancelled"
    /\ \E t \in Tasks : pc[t] = "cancelled"
    /\ cancelPending' = [t \in Tasks |-> ~Terminal(t)]
    /\ mainPc' = "draining"
    /\ UNCHANGED <<limiterVars, localVars, sidecar, cancelledAt, slots, faults,
                   otherVars>>

\* variant: a gather that returns with the first task that is done
joined_first_done == \E t \in Tasks : Terminal(t)

\* both gathers return when every task is done
all_joined == \A t \in Tasks : Terminal(t)

\* _processed: the results whose second component is a sidecar path
processed == {t \in Tasks : pc[t] = "done" /\ result[t] = "ok"}

\* _errors: the results whose second component is an error text; a cancelled
\* task contributes its CancelledError, which is skipped
errors == {t \in Tasks : pc[t] = "done" /\ result[t] # "ok"}

\* the summary of annotate: the count of annotated images, the count of
\* failed ones, and, after an interruption only, the count of the rest
Summary(p, e, was_interrupted) ==
    [succeeded |-> Cardinality(p),
     failed |-> Cardinality(e),
     notStarted |-> IF was_interrupted
                    THEN NumTasks - Cardinality(p) - Cardinality(e) ELSE 0]

\* every task is done: the results are split into processed and errors,
\* process_images returns and annotate prints the summary
Finalize ==
    /\ mainPc \in {"gather", "draining"}
    /\ all_joined
    /\ mainPc' = "finalized"
    /\ report' = Summary(processed, errors, mainPc = "draining")
    /\ UNCHANGED <<limiterVars, taskVars, faults, ghostVars, mmmVars, rerunVars,
                   itemVars, rateVars, waitVars, hashVars, auxVars>>

\* ConcurrencyLimiter(max_concurrency = m): the state after construction
LimiterInit(m) ==
    /\ poolMax = m
    /\ currentConcurrency = m
    /\ activeTasks = 0
    /\ isPaused = FALSE
    /\ successesSinceReduction = 0
    /\ consecutiveServerErrors = 0
    /\ consecutiveFailures = 0

\* one task per image, created by process_images and not yet scheduled
TasksInit ==
    /\ pc = [t \in Tasks |-> "pending"]
    /\ attempt = [t \in Tasks |-> 0]
    /\ acquired = [t \in Tasks |-> FALSE]
    /\ outcome = [t \in Tasks |-> "none"]
    /\ result = [t \in Tasks |-> "none"]
    /\ calls = [t \in Tasks |-> 0]
    /\ sidecar = [t \in Tasks |-> FALSE]
    /\ cancelPending = [t \in Tasks |-> FALSE]
    /\ cancelledAt = [t \in Tasks |-> "none"]
    /\ slots = [t \in Tasks |-> 0]
    /\ mainPc = "gather"
    /\ report = "none"
    /\ faults = 0

GhostInit ==
    /\ lastOp = "none"
    /\ prevConcurrency = currentConcurrency
    /\ prevSuccesses = 0
    /\ prevServerErrors = 0
    /\ prevActive = 0
    /\ prevPaused = FALSE

\* reset_rate_limiter() before the sequential batch of meme-my-mood-cli
MMMInit ==
    /\ m_image = 1
    /\ m_attempt = 0
    /\ m_failures = 0
    /\ m_status = [i \in Images |-> "Pending"]
    /\ m_calls = [i \in Images |-> 0]

\* a folder whose images have no sidecar yet and no hash manifest
RerunInit ==
    /\ d_sameDir = TRUE
    /\ d_bytes = [f \in 1..NumFiles |-> 1]
    /\ d_sidecars = {}
    /\ d_manifest = [c \in 1..NumContents |-> 0]
    /\ d_phase = "idle"
    /\ d_run = 0
    /\ d_work = {}
    /\ d_todo = {}
    /\ d_unfinished = {}
    /\ d_file = "absent"
    /\ d_loaded = [c \in 1..NumContents |-> 0]
    /\ d_cands = <<>>
    /\ d_exact = [f \in 1..NumFiles |-> 0]
    /\ d_near = [f \in 1..NumFiles |-> {}]
    /\ d_present = 1..NumFiles
    /\ d_undecodable = {}
    /\ d_detectNear = TRUE

\* RateLimiter(): the state after construction with the default settings
RateInit ==
    /\ r_min = min_delay
    /\ r_max = max_delay
    /\ r_delay = initial_delay
    /\ r_failures = 0
    /\ r_wait = -1
    /\ r_op = "none"
    /\ r_window = <<>>
    /\ r_hint = -1
    /\ r_base = -1
    /\ r_prevBase = -1
    /\ r_before = -1
    /\ r_run = 0

\* no worker inside wait_if_needed; last_request_time = 0.0
WaitInit ==
    /\ w_clock = 0
    /\ w_last = 0
    /\ w_pc = [w \in 1..NumWorkers |-> "idle"]
    /\ w_wake = [w \in 1..NumWorkers |-> 0]
    /\ w_calls = [w \in 1..NumWorkers |-> 0]
    /\ w_prevIssue = -1
    /\ w_gap = -1

\* a manifest value that stands for "no manifest yet"
NoManifest == [version |-> "", created_at |-> 0, updated_at |-> 0,
               hashes |-> [k \in {"sha_a", "sha_b"} |-> ""]]

\* no manifest file, nothing loaded
JsonInit ==
    /\ j_manifest = NoManifest
    /\ j_file = [exists |-> FALSE, members |-> <<>>, complete |-> FALSE]
    /\ j_saved = NoManifest
    /\ j_op = "none"
    /\ j_now = 0

\* no remote call made yet; the limiter wraps the RateLimiter of copilot.py
FailInit ==
    /\ f_pc = "calling"
    /\ f_failures = 0
    /\ f_own = 0
    /\ f_wraps = TRUE
    /\ f_retry_after = -1
    /\ f_passed = -1
    /\ f_wait = -1
    /\ f_failedCalls = 0

\* every worker about to call acquire(); no pause yet
PauseInit ==
    /\ p_now = 0
    /\ p_resumeAt = 0
    /\ p_pc = [w \in 1..NumAcquirers |-> "acquiring"]
    /\ p_since = [w \in 1..NumAcquirers |-> 0]
    /\ p_until = [w \in 1..NumAcquirers |-> 0]
    /\ p_faults = 0

AuxInit ==
    /\ JsonInit
    /\ FailInit
    /\ PauseInit

\* no hashes compared yet
HashInit ==
    /\ h_1 = <<>>
    /\ h_2 = <<>>
    /\ h_threshold = 0
    /\ h_distance = -1
    /\ h_similar = FALSE
    /\ h_done = FALSE

\* no response seen yet
NoResponse == [kind |-> "none", status |-> 0, body |-> "none", words |-> {}]

\* one work item before its first attempt
ItemInit ==
    /\ i_attempt = 0
    /\ i_calls = 0
    /\ i_status = "Pending"
    /\ i_resp = NoResponse
    /\ i_class = "none"
    /\ i_mresp = NoResponse
    /\ i_mclass = "none"

Init ==
    /\ LimiterInit(maxConcurrency)
    /\ TasksInit
    /\ AuxInit
    /\ GhostInit
    /\ MMMInit
    /\ RerunInit
    /\ ItemInit
    /\ RateInit
    /\ WaitInit
    /\ HashInit

Next ==
    \/ \E t \in Tasks : Start(t)
    \/ \E t \in Tasks : Acquire(t)
    \/ \E t \in Tasks : \E o \in Outcomes : Respond(t, o)
    \/ \E t \in Tasks : Release(t)
    \/ \E t \in Tasks : HandlerRelease(t)
    \/ \E t \in Tasks : RecordSuccess(t)
    \/ \E t \in Tasks : RecordRateLimit(t)
    \/ \E t \in Tasks : RecordServerError(t)
    \/ \E t \in Tasks : Wake(t)
    \/ \E t \in Tasks : CancelDelivered(t)
    \/ PauseElapsed
    \/ Interrupt
    \/ HandleInterrupt
    \/ Finalize

Spec == Init /\ [][Next]_vars

\* ------------------------------ the Concurrency Limiter API on its own
\* the call `op` starts from the current state of the limiter
Called(op) ==
    /\ lastOp' = op
    /\ prevConcurrency' = currentConcurrency
    /\ prevSuccesses' = successesSinceReduction
    /\ prevServerErrors' = consecutiveServerErrors
    /\ prevActive' = activeTasks
    /\ prevPaused' = isPaused

LimiterIdle ==
    UNCHANGED <<taskVars, mainPc, report, faults, mmmVars, rerunVars, itemVars,
                rateVars, waitVars, hashVars, auxVars>>

\* await limiter.acquire() completes
LAcquire == lim_acquire /\ Called("acquire") /\ LimiterIdle

\* await limiter.release() by a caller that holds a slot
LRelease == activeTasks > 0 /\ lim_release /\ Called("release") /\ LimiterIdle

\* await limiter.record_success()
LRecordSuccess == lim_record_success /\ Called("success") /\ LimiterIdle

\* await limiter.record_rate_limit(retry_after)
LRecordRateLimit ==
    /\ consecutiveFailures < MaxFailures
    /\ lim_record_rate_limit /\ Called("ratelimit") /\ LimiterIdle

\* await limiter.record_server_error()
LRecordServerError ==
    /\ consecutiveFailures < MaxFailures
    /\ lim_record_server_error /\ Called("servererror") /\ LimiterIdle

\* the pause is over
LResume == lim_resume /\ Called("resume") /\ LimiterIdle

InitLimiter ==
    /\ \E m \in minConcurrency..MaxPool : LimiterInit(m)
    /\ TasksInit
    /\ AuxInit
    /\ GhostInit
    /\ MMMInit
    /\ RerunInit
    /\ ItemInit
    /\ RateInit
    /\ WaitInit
    /\ HashInit

NextLimiter ==
    \/ LAcquire
    \/ LRelease
    \/ LRecordSuccess
    \/ LRecordRateLimit
    \/ LRecordServerError
    \/ LResume

SpecLimiter == InitLimiter /\ [][NextLimiter]_vars

\* ------------------------------------- process_images (meme-my-mood-cli)
\* the loop over the images moves on to the next image
NextImage(st) ==
    /\ m_status' = [m_status EXCEPT ![m_image] = st]
    /\ m_image' = m_image + 1
    /\ m_attempt' = 0

\* after a retryable error: give up on the image when the shared rate limiter
\* says so, else sleep and go on with the next iteration of the retry loop
\* (an image whose loop runs out is in neither processed nor errors)
RetryOrGiveUp(f, st) ==
    IF should_give_up(f)
    THEN NextImage(st)
    ELSE IF m_attempt + 1 < max_retries
         THEN /\ m_attempt' = m_attempt + 1
              /\ UNCHANGED <<m_image, m_status>>
         ELSE NextImage("Dropped")

MMMIdle ==
    UNCHANGED <<limiterVars, taskVars, mainPc, report, faults, ghostVars, rerunVars,
                itemVars, rateVars, waitVars, hashVars, auxVars>>

\* one iteration of the retry loop: analyze_image_async and its handlers
MAttempt(o) ==
    /\ m_image \in Images
    /\ m_calls' = [m_calls EXCEPT ![m_image] = m_calls[m_image] + 1]
    /\ CASE o = "ok" ->
              \* analyze_image_async records the success
              /\ m_failures' = rl_record_success(m_failures)
              /\ NextImage("Succeeded")
         [] o = "ratelimit" ->
              \* analyze_image_async records the failure and raises
              \* RateLimitError(retry_after = wait_time); wait_time >= min_delay
              \* is truthy, so `e.retry_after or record_failure()` records nothing
              /\ m_failures' = rl_record_failure(m_failures)
              /\ RetryOrGiveUp(rl_record_failure(m_failures), "FailedRateLimit")
         [] o = "server" ->
              \* analyze_image_async records the failure and raises ServerError;
              \* the handler records it once more
              /\ m_failures' = rl_record_failure(rl_record_failure(m_failures))
              /\ RetryOrGiveUp(rl_record_failure(rl_record_failure(m_failures)),
                               "FailedServer")
         [] o = "other" ->
              /\ m_failures' = m_failures
              /\ NextImage("FailedOther")
         [] o = "auth" ->
              \* except CopilotNotAuthenticatedError: sys.exit(1)
              /\ m_failures' = m_failures
              /\ m_status' = [m_status EXCEPT ![m_image] = "Aborted"]
              /\ m_image' = NumImages + 1
              /\ m_attempt' = 0
    /\ MMMIdle

InitMMM ==
    /\ LimiterInit(maxConcurrency)
    /\ TasksInit
    /\ AuxInit
    /\ GhostInit
    /\ MMMInit
    /\ RerunInit
    /\ ItemInit
    /\ RateInit
    /\ WaitInit
    /\ HashInit

NextMMM == \E o \in Outcomes : MAttempt(o)

SpecMMM == InitMMM /\ [][NextMMM]_vars

\* ------------------------------- annotate run after run over one folder
Files == 1..NumFiles
Contents == 1..NumContents

\* sorted(...)
RECURSIVE sorted(_)
sorted(S) ==
    IF S = {} THEN <<>>
    ELSE LET first == CHOOSE x \in S : \A y \in S : x <= y
         IN  <<first>> \o sorted(S \ {first})

\* get_images_in_folder: the image files of the folder, sorted
all_images == sorted(d_present)

\* compute_sha256: equal exactly for equal bytes
compute_sha256(f) == d_bytes[f]

\* A hex hash string is the sequence of its bytes, "" the empty sequence.
\* The perceptual hash that goes with a content: one byte, contents next to
\* each other differ in one bit; "" for a content that cannot be decoded as
\* an image (compute_phash returns "" on any exception)
phash_of(c) == IF c \in d_undecodable THEN <<>> ELSE <<2 ^ (c - 1) - 1>>

\* compute_phash
compute_phash(f) == phash_of(d_bytes[f])

\* bin(byte1 ^ byte2).count("1")
xor_bit_count(byte1, byte2) ==
    Cardinality({k \in 0..7 : (byte1 \div 2 ^ k) % 2 # (byte2 \div 2 ^ k) % 2})

\* the loop of hamming_distance over zip(b1, b2)
RECURSIVE distance_loop(_, _)
distance_loop(b1, b2) ==
    IF b1 = <<>> \/ b2 = <<>> THEN 0
    ELSE xor_bit_count(Head(b1), Head(b2)) + distance_loop(Tail(b1), Tail(b2))

\* variant: the loop without the checks before it
hamming_distance_unchecked(hash1, hash2) == distance_loop(hash1, hash2)

\* hamming_distance: the number of differing bits, -1 for an empty hash or
\* hashes of different lengths
hamming_distance(hash1, hash2) ==
    IF hash1 = <<>> \/ hash2 = <<>> THEN -1
    ELSE IF Len(hash1) # Len(hash2) THEN -1
    ELSE distance_loop(hash1, hash2)

\* variant: the distance compared with the threshold whatever it is
are_similar_any_distance(phash1, phash2, threshold) ==
    hamming_distance(phash1, phash2) <= threshold

\* are_similar_images
are_similar_images(phash1, phash2, threshold) ==
    LET distance == hamming_distance(phash1, phash2)
    IN  IF distance < 0 THEN FALSE ELSE distance <= threshold

\* has_sidecar
has_sidecar(f) == f \in d_sidecars

\* filter_images_by_mode without --force: the images that have no sidecar
filter_images_by_mode(images) == SelectSeq(images, LAMBDA f : ~has_sidecar(f))

\* `path.exists()` of build_index_from_manifest: the manifest lives in the
\* output folder, its file names are looked up there
path_exists(f) == d_sameDir /\ f \in d_present

\* the manifest with no entries
no_hashes == [c \in 1..NumContents |-> 0]

\* load_hash_manifest: what json.load returned, or an empty manifest when
\* the file is absent, cannot be read or is not JSON.  has_hashes says
\* whether the value returned has a "hashes" mapping
load_hash_manifest ==
    CASE d_file = "manifest" -> [has_hashes |-> TRUE, hashes |-> d_manifest]
      [] d_file = "not_manifest" -> [has_hashes |-> FALSE, hashes |-> no_hashes]
      [] OTHER -> [has_hashes |-> TRUE, hashes |-> no_hashes]

\* variant: a manifest that no image is added to
add_to_manifest_nothing(manifest, file_path, sha256) == manifest

\* add_to_manifest: manifest["hashes"][sha256] = the entry of the file
add_to_manifest(manifest, file_path, sha256) ==
    [manifest EXCEPT ![sha256] = file_path]

\* build_index_from_manifest: sha256 -> path for the entries whose file exists
build_index_from_manifest(manifest) ==
    [c \in Contents |->
        IF manifest[c] # 0 /\ path_exists(manifest[c]) THEN manifest[c] ELSE 0]

\* variant: an index that knows no content hash
has_exact_duplicate_never(index, sha256) == 0

\* HashIndex.has_exact_duplicate: the path indexed under the hash, 0 for None
has_exact_duplicate(index, sha256) == index[sha256]

\* variant: an index in which nothing is ever similar
find_similar_nothing(index, phash, threshold) == {}

\* HashIndex.find_similar
find_similar(index, phash, threshold) ==
    IF phash = <<>> THEN {}
    ELSE {index[c] : c \in {x \in Contents :
                          /\ index[x] # 0
                          /\ are_similar_images(phash, phash_of(x), threshold)}}

\* the best match of a near duplicate: one of the similar images at the
\* smallest distance (the first of them in the order of the index)
best_matches(index, phash, threshold) ==
    LET close == {x \in Contents :
                     /\ index[x] # 0
                     /\ are_similar_images(phash, phash_of(x), threshold)}
    IN  {index[x] : x \in {y \in close :
                              \A z \in close :
                                  hamming_distance(phash, phash_of(y))
                                      <= hamming_distance(phash, phash_of(z))}}

\* the loop of deduplicate_images over image_list
RECURSIVE dedup_loop(_, _, _, _, _, _, _)
dedup_loop(image_list, index, manifest, unique_images, exact_duplicates, near_duplicates, detect_near_duplicates) ==
    IF image_list = <<>>
    THEN [manifest |-> manifest, unique_images |-> unique_images,
          exact_duplicates |-> exact_duplicates,
          near_duplicates |-> near_duplicates]
    ELSE LET image_path == Head(image_list)
             sha256 == compute_sha256(image_path)
             phash == compute_phash(image_path)
             existing_exact == has_exact_duplicate(index, sha256)
         IN  IF existing_exact # 0
             THEN dedup_loop(Tail(image_list), index, manifest, unique_images,
                             [exact_duplicates EXCEPT
                                 ![image_path] = existing_exact],
                             near_duplicates, detect_near_duplicates)
             ELSE IF /\ detect_near_duplicates
                     /\ phash # <<>>
                     /\ find_similar(index, phash, similarityThreshold) # {}
             THEN dedup_loop(Tail(image_list), index, manifest, unique_images,
                             exact_duplicates,
                             [near_duplicates EXCEPT ![image_path] =
                                 best_matches(index, phash, similarityThreshold)],
                             detect_near_duplicates)
             ELSE dedup_loop(Tail(image_list),
                             [index EXCEPT ![sha256] = image_path],
                             add_to_manifest(manifest, image_path, sha256),
                             Append(unique_images, image_path),
                             exact_duplicates, near_duplicates,
                             detect_near_duplicates)

\* deduplicate_images
deduplicate_images(images, manifest, detect_near_duplicates) ==
    dedup_loop(images, build_index_from_manifest(manifest), manifest, <<>>,
               [f \in Files |-> 0], [f \in Files |-> {}],
               detect_near_duplicates)

SeqToSet(q) == {q[i] : i \in 1..Len(q)}

RerunIdle ==
    UNCHANGED <<limiterVars, taskVars, mainPc, report, faults, ghostVars, mmmVars,
                itemVars, rateVars, waitVars, hashVars, auxVars>>

\* annotate up to the start of the processing: filter, load the manifest,
\* deduplicate, save the manifest; what is left is the work queue of the
\* run.  A manifest value without "hashes" makes build_index_from_manifest
\* raise, which nothing catches
StartRun ==
    /\ d_phase = "idle" /\ d_run < MaxRuns
    /\ LET images == filter_images_by_mode(all_images)
           manifest == load_hash_manifest
           dedup_result == deduplicate_images(images, manifest.hashes, TRUE)
       IN  /\ d_cands' = images
           /\ d_loaded' = manifest.hashes
           /\ IF images # <<>> /\ ~manifest.has_hashes
              THEN /\ d_phase' = "crashed"
                   /\ UNCHANGED <<d_manifest, d_file, d_work, d_todo, d_exact,
                                  d_near>>
              ELSE /\ d_phase' = "processing"
                   /\ d_manifest' = IF images # <<>> THEN dedup_result.manifest
                                     ELSE d_manifest
                   /\ d_file' = IF images # <<>> THEN "manifest" ELSE d_file
                   /\ d_work' = SeqToSet(dedup_result.unique_images)
                   /\ d_todo' = SeqToSet(dedup_result.unique_images)
                   /\ d_exact' = dedup_result.exact_duplicates
                   /\ d_near' = dedup_result.near_duplicates
    /\ d_run' = d_run + 1
    /\ d_detectNear' = TRUE
    /\ UNCHANGED <<d_sameDir, d_bytes, d_sidecars, d_unfinished, d_present,
                   d_undecodable>>
    /\ RerunIdle

\* one image of the work queue is done with: its sidecar is written (ok) or
\* it failed or was cancelled (no sidecar)
ProcessImage(f, ok) ==
    /\ d_phase = "processing" /\ f \in d_todo
    /\ d_todo' = d_todo \ {f}
    /\ d_sidecars' = IF ok THEN d_sidecars \cup {f} ELSE d_sidecars
    /\ UNCHANGED <<d_sameDir, d_bytes, d_manifest, d_phase, d_run, d_work,
                   d_unfinished, d_file, d_loaded, d_cands, d_exact, d_near,
                   d_present, d_undecodable, d_detectNear>>
    /\ RerunIdle

\* the run ends, all images done or interrupted with images not started
EndRun ==
    /\ d_phase = "processing"
    /\ d_phase' = "idle"
    /\ d_unfinished' = d_work \ d_sidecars
    /\ d_todo' = {}
    /\ UNCHANGED <<d_sameDir, d_bytes, d_sidecars, d_manifest, d_run, d_work,
                   d_file, d_loaded, d_cands, d_exact, d_near, d_present,
                   d_undecodable, d_detectNear>>
    /\ RerunIdle

\* what the output folder holds under the name of the manifest before the
\* first run: nothing, a file that cannot be read, text that is not JSON,
\* or JSON without a "hashes" mapping
ManifestFiles == {"absent", "unreadable", "invalid_json", "not_manifest"}

\* any folder: the bytes of each image, and --output the folder itself or
\* another directory
InitRerun ==
    /\ LimiterInit(maxConcurrency)
    /\ TasksInit
    /\ AuxInit
    /\ GhostInit
    /\ MMMInit
    /\ d_sameDir \in BOOLEAN
    /\ d_bytes \in [Files -> Contents]
    /\ d_sidecars = {}
    /\ d_manifest = [c \in Contents |-> 0]
    /\ d_phase = "idle"
    /\ d_run = 0
    /\ d_work = {}
    /\ d_todo = {}
    /\ d_unfinished = {}
    /\ d_file \in ManifestFiles
    /\ d_loaded = no_hashes
    /\ d_cands = <<>>
    /\ d_exact = [f \in Files |-> 0]
    /\ d_near = [f \in Files |-> {}]
    /\ d_present = Files
    /\ d_undecodable \in SUBSET Contents
    /\ d_detectNear = TRUE
    /\ ItemInit
    /\ RateInit
    /\ WaitInit
    /\ HashInit

NextRerun ==
    \/ StartRun
    \/ \E f \in Files : \E ok \in BOOLEAN : ProcessImage(f, ok)
    \/ EndRun

SpecRerun == InitRerun /\ [][NextRerun]_vars

\* ------------------------------------------ dedupe run after run (dedupe.py)
\* _delete_image_and_sidecar for each of the duplicates
delete_images(present, dupes) == present \ dupes

\* the images reported as duplicates, exact or near
reported_duplicates(dedup_result) ==
    {f \in Files : dedup_result.exact_duplicates[f] # 0
                    \/ dedup_result.near_duplicates[f] # {}}

\* dedupe FOLDER [--no-near] [--dry-run] --yes: scan all the images of the
\* folder, save the manifest, delete the duplicates and their sidecars.
\* manifest.pop(dupe.name) removes no entry: the entries are under
\* manifest["hashes"], keyed by content hash
DedupeRun(no_near, dry_run) ==
    /\ d_phase = "idle" /\ d_run < MaxRuns
    /\ all_images # <<>>
    /\ LET images == all_images
           manifest == load_hash_manifest
           dedup_result == deduplicate_images(images, manifest.hashes, ~no_near)
           dupes == reported_duplicates(dedup_result)
       IN  /\ d_cands' = images
           /\ d_loaded' = manifest.hashes
           /\ d_detectNear' = ~no_near
           /\ IF ~manifest.has_hashes
              THEN /\ d_phase' = "crashed"
                   /\ UNCHANGED <<d_manifest, d_file, d_work, d_exact, d_near,
                                  d_present, d_sidecars>>
              ELSE /\ d_phase' = "idle"
                   /\ d_manifest' = dedup_result.manifest
                   /\ d_file' = "manifest"
                   /\ d_work' = SeqToSet(dedup_result.unique_images)
                   /\ d_exact' = dedup_result.exact_duplicates
                   /\ d_near' = dedup_result.near_duplicates
                   /\ d_present' = IF dry_run THEN d_present
                                   ELSE delete_images(d_present, dupes)
                   /\ d_sidecars' = IF dry_run THEN d_sidecars
                                    ELSE delete_images(d_sidecars, dupes)
    /\ d_run' = d_run + 1
    /\ UNCHANGED <<d_sameDir, d_bytes, d_todo, d_unfinished, d_undecodable>>
    /\ RerunIdle

NextDedupe == \E no_near \in BOOLEAN : \E dry_run \in BOOLEAN :
                  DedupeRun(no_near, dry_run)

SpecDedupe == InitRerun /\ [][NextDedupe]_vars

\* ------------------------- analyze_image_async and one item's retry loop
\* status codes an error of the remote service carries
AuthStatuses == {401, 403}
ServerStatuses == {500, 502, 503, 504}
ErrorStatuses == AuthStatuses \cup {429} \cup ServerStatuses

\* words that the text of an error may contain besides its status code:
\* "rate" (as in "failed to generate"), "models" (a missing token scope)
Words == {"rate", "models"}

\* what one remote call can end in: a message of the model (a valid JSON
\* answer, text that does not parse or lacks the emojis, or no content), an
\* error of the service, no answer within the timeout, or no connection to
\* the Copilot CLI at all
Responses ==
    {[kind |-> "result", status |-> 200, body |-> b, words |-> {}] :
         b \in {"valid", "malformed", "empty"}}
    \cup {[kind |-> "error", status |-> c, body |-> "none", words |-> w] :
         c \in ErrorStatuses, w \in SUBSET Words}
    \cup {[kind |-> "timeout", status |-> 0, body |-> "none", words |-> {}],
          [kind |-> "transport", status |-> 0, body |-> "none", words |-> {}]}

\* analyze_image_async of riposte-cli: the exception (or "ok") a response
\* turns into; the text of an error is searched for substrings in this order
classify(r) ==
    CASE r.kind = "transport" -> "auth"
      [] r.kind = "timeout" -> "other"
      [] r.kind = "error" ->
            IF "rate" \in r.words \/ r.status = 429 THEN "ratelimit"
            ELSE IF r.status \in {500, 502, 504} THEN "server"
            ELSE IF r.status = 503 THEN "server"
            ELSE "other"
      [] r.kind = "result" -> IF r.body = "valid" THEN "ok" ELSE "other"

\* analyze_image of meme-my-mood-cli: by the HTTP status of the response
mmm_classify(r) ==
    CASE r.kind \in {"transport", "timeout"} -> "other"
      [] r.kind = "error" ->
            IF r.status = 401 THEN "auth"
            ELSE IF r.status = 403
                 THEN (IF "models" \in r.words THEN "auth" ELSE "other")
            ELSE IF r.status = 429 THEN "ratelimit"
            ELSE "other"
      [] r.kind = "result" -> IF r.body = "valid" THEN "ok" ELSE "other"

ItemIdle ==
    UNCHANGED <<limiterVars, taskVars, mainPc, report, faults, ghostVars, mmmVars,
                rerunVars, rateVars, waitVars, hashVars, auxVars>>

\* one attempt of process_single_image on its own: the remote call ends in r
\* and the try body or the except clause that matches decides
IAttempt(r) ==
    /\ i_status = "Pending"
    /\ i_calls' = i_calls + 1
    /\ i_resp' = r
    /\ i_class' = classify(r)
    /\ CASE classify(r) = "ok" ->
              i_status' = "Succeeded" /\ i_attempt' = i_attempt
         [] classify(r) = "auth" ->
              i_status' = "Aborted" /\ i_attempt' = i_attempt
         [] classify(r) \in Retryable ->
              IF exhausted(i_attempt)
              THEN i_status' = "Failed" /\ i_attempt' = i_attempt
              ELSE i_status' = "Pending" /\ i_attempt' = i_attempt + 1
         [] classify(r) = "other" ->
              i_status' = "Failed" /\ i_attempt' = i_attempt
    /\ UNCHANGED <<i_mresp, i_mclass>>
    /\ ItemIdle

\* analyze_image of meme-my-mood-cli is given the response r
MAnalyzeImage(r) ==
    /\ i_mresp' = r
    /\ i_mclass' = mmm_classify(r)
    /\ UNCHANGED <<i_attempt, i_calls, i_status, i_resp, i_class>>
    /\ ItemIdle

InitItem ==
    /\ LimiterInit(maxConcurrency)
    /\ TasksInit
    /\ AuxInit
    /\ GhostInit
    /\ MMMInit
    /\ RerunInit
    /\ ItemInit
    /\ RateInit
    /\ WaitInit
    /\ HashInit

NextItem ==
    \/ \E r \in Responses : IAttempt(r)
    \/ \E r \in Responses : MAnalyzeImage(r)

SpecItem == InitItem /\ [][NextItem]_vars

\* ------------------------------------------- RateLimiter (copilot.py)
\* Delays are in tenths of a second.  random.uniform(-1, 1) is drawn from
\* {-1, -1/2, 0, 1/2, 1}; a retry-after hint is absent (NoHint) or one of a
\* few durations.
NoHint == -1
Hints == {NoHint, 0, min_delay, 10 * min_delay, max_delay}
JitterDraws == {-2, -1, 0, 1, 2}

\* RateLimiter(min_delay = ..., max_delay = ...): the default and two others
DelayConfigs == {<<min_delay, max_delay>>, <<2 * min_delay, max_delay>>,
                 <<min_delay, 4 * min_delay>>}

Min2(a, b) == IF a < b THEN a ELSE b

\* variant: an exponent that keeps growing with the failure count
backoff_exponent_uncapped(f) == f

\* exponent = min(self.consecutive_failures, self.max_backoff_attempts)
backoff_exponent(f) == Min2(f, max_backoff_attempts)

\* base_wait: base_backoff ** exponent, or base_backoff ** (exponent * 0.5)
\* for a server error (2 ** 0.5 taken as 1.414)
base_wait(e, is_server_error) ==
    IF is_server_error
    THEN (base_backoff ^ (e \div 2) * (IF e % 2 = 1 THEN 1414 ELSE 1000)) \div 100
    ELSE base_backoff ^ e * 10

\* variant: jitter of up to half the base wait
with_jitter_wide(w, j) == w + (w * 2 * jitter_percent * j) \div 200

\* base_wait + base_wait * jitter_factor * random.uniform(-1, 1), draw j / 2
with_jitter(w, j) == w + (w * jitter_percent * j) \div 200

\* wait_time = min(base_wait + jitter, max_delay); max(wait_time, min_delay)
clamped(w, lo, hi) == Max2(Min2(w, hi), lo)

\* variant: record_failure that computes the backoff whatever the hint
failure_wait_ignores_hint(f, retry_after, is_server_error, j, lo, hi) ==
    clamped(with_jitter(base_wait(backoff_exponent(f), is_server_error), j),
            lo, hi)

\* the wait time record_failure returns when f failures in a row have been
\* counted (this one included)
failure_wait(f, retry_after, is_server_error, j, lo, hi) ==
    IF retry_after # NoHint
    THEN (retry_after * 11) \div 10
    ELSE clamped(with_jitter(base_wait(backoff_exponent(f), is_server_error), j),
                 lo, hi)

\* record_success: current_delay = max(min_delay, current_delay * 0.9)
success_delay(d, lo) == Max2(lo, (d * 9) \div 10)

\* _add_result: append the outcome (TRUE for a success), drop the oldest
\* one when the window is full
add_result(w, success) ==
    LET a == Append(w, success)
    IN  IF Len(a) > error_window THEN Tail(a) ELSE a

RateIdle ==
    UNCHANGED <<limiterVars, taskVars, mainPc, report, faults, ghostVars, mmmVars,
                rerunVars, itemVars, waitVars, hashVars, auxVars>>

\* RateLimiter.record_success()
RRecordSuccess ==
    /\ r_failures' = rl_record_success(r_failures)
    /\ r_delay' = success_delay(r_delay, r_min)
    /\ r_window' = add_result(r_window, TRUE)
    /\ r_wait' = NoHint
    /\ r_op' = "success"
    /\ r_hint' = NoHint
    /\ r_base' = NoHint
    /\ r_prevBase' = NoHint
    /\ r_before' = r_delay
    /\ r_run' = 0
    /\ UNCHANGED <<r_min, r_max>>
    /\ RateIdle

\* RateLimiter.record_failure(retry_after, is_server_error) with jitter draw j
RRecordFailure(retry_after, is_server_error, j) ==
    /\ r_failures < MaxBackoffRun
    /\ r_failures' = rl_record_failure(r_failures)
    /\ LET wait_time == failure_wait(rl_record_failure(r_failures), retry_after,
                                     is_server_error, j, r_min, r_max)
       IN  /\ r_delay' = Max2(r_delay, wait_time)
           /\ r_wait' = wait_time
    /\ r_window' = add_result(r_window, FALSE)
    /\ LET kind == IF retry_after # NoHint THEN "hinted"
                   ELSE IF is_server_error THEN "server" ELSE "ratelimit"
       IN  /\ r_op' = kind
           /\ r_base' = IF kind = "hinted" THEN NoHint
                         ELSE failure_wait(rl_record_failure(r_failures),
                                           NoHint, is_server_error, 0,
                                           r_min, r_max)
           /\ r_prevBase' = IF kind # "hinted" /\ r_op = kind
                             THEN r_base ELSE NoHint
    /\ r_hint' = retry_after
    /\ r_before' = NoHint
    /\ r_run' = r_run + 1
    /\ UNCHANGED <<r_min, r_max>>
    /\ RateIdle

\* RateLimiter(min_delay = lo, max_delay = hi) for any of the configurations
InitRate ==
    /\ LimiterInit(maxConcurrency)
    /\ TasksInit
    /\ AuxInit
    /\ GhostInit
    /\ MMMInit
    /\ RerunInit
    /\ ItemInit
    /\ \E c \in DelayConfigs : r_min = c[1] /\ r_max = c[2]
    /\ r_delay = initial_delay
    /\ r_failures = 0
    /\ r_wait = NoHint
    /\ r_op = "none"
    /\ r_window = <<>>
    /\ r_hint = NoHint
    /\ r_base = NoHint
    /\ r_prevBase = NoHint
    /\ r_before = NoHint
    /\ r_run = 0
    /\ WaitInit
    /\ HashInit

NextRate ==
    \/ RRecordSuccess
    \/ \E h \in Hints : \E sv \in BOOLEAN : \E j \in JitterDraws :
           RRecordFailure(h, sv, j)

SpecRate == InitRate /\ [][NextRate]_vars

\* ------------------------------------ RateLimiter.wait_if_needed (copilot.py)
\* Workers of one event loop call wait_if_needed before every request.  The
\* clock is time.monotonic() in tenths of a second; asyncio.sleep ends at
\* its deadline or later.
Workers == 1..NumWorkers

\* delay = current_delay, times (1 + error rate) when the error rate of
\* recent_results is above error_threshold
wait_delay(current_delay, recent_results) ==
    LET n == Len(recent_results)
        failures == Cardinality({i \in 1..n : ~recent_results[i]})
    IN  IF n > 0 /\ 100 * failures > error_threshold_percent * n
        THEN current_delay + (current_delay * failures) \div n
        ELSE current_delay

WaitIdle ==
    UNCHANGED <<limiterVars, taskVars, mainPc, report, faults, ghostVars, mmmVars,
                rerunVars, itemVars, rateVars, hashVars, auxVars>>

\* self.last_request_time = time.monotonic(): the caller goes on to its
\* request
let_through ==
    /\ w_last' = w_clock
    /\ w_gap' = IF w_prevIssue = -1 THEN -1 ELSE w_clock - w_prevIssue
    /\ w_prevIssue' = w_clock

\* wait_if_needed up to its await: elapsed >= delay lets the caller through
\* at once, otherwise it sleeps for delay - elapsed
WCall(w) ==
    /\ w_pc[w] = "idle" /\ w_calls[w] < MaxWaitCalls
    /\ w_calls' = [w_calls EXCEPT ![w] = @ + 1]
    /\ LET now == w_clock
           elapsed == now - w_last
           delay == wait_delay(r_delay, r_window)
       IN  IF elapsed < delay
           THEN /\ w_pc' = [w_pc EXCEPT ![w] = "sleeping"]
                /\ w_wake' = [w_wake EXCEPT ![w] = now + (delay - elapsed)]
                /\ UNCHANGED <<w_last, w_gap, w_prevIssue>>
           ELSE /\ let_through
                /\ UNCHANGED <<w_pc, w_wake>>
    /\ UNCHANGED w_clock
    /\ WaitIdle

\* asyncio.sleep returns: the rest of wait_if_needed
WWake(w) ==
    /\ w_pc[w] = "sleeping" /\ w_clock >= w_wake[w]
    /\ w_pc' = [w_pc EXCEPT ![w] = "idle"]
    /\ let_through
    /\ UNCHANGED <<w_clock, w_wake, w_calls>>
    /\ WaitIdle

\* time passes
WTick ==
    /\ w_clock < MaxClock
    /\ w_clock' = w_clock + ClockTick
    /\ UNCHANGED <<w_last, w_pc, w_wake, w_calls, w_prevIssue, w_gap>>
    /\ WaitIdle

\* a RateLimiter just built, or one that has recorded a first rate limit
\* (jitter draw 0); the clock reads anything
InitWait ==
    /\ LimiterInit(maxConcurrency)
    /\ TasksInit
    /\ AuxInit
    /\ GhostInit
    /\ MMMInit
    /\ RerunInit
    /\ ItemInit
    /\ HashInit
    /\ r_min = min_delay /\ r_max = max_delay
    /\ r_hint = NoHint /\ r_prevBase = NoHint /\ r_before = NoHint
    /\ \/ /\ r_failures = 0 /\ r_run = 0
          /\ r_delay = initial_delay
          /\ r_wait = NoHint /\ r_base = NoHint
          /\ r_op = "none"
          /\ r_window = <<>>
       \/ /\ r_failures = 1 /\ r_run = 1
          /\ r_delay = Max2(initial_delay,
                            failure_wait(1, NoHint, FALSE, 0, min_delay, max_delay))
          /\ r_wait = failure_wait(1, NoHint, FALSE, 0, min_delay, max_delay)
          /\ r_base = r_wait
          /\ r_op = "ratelimit"
          /\ r_window = <<FALSE>>
    /\ w_clock \in {0, MaxClock \div 2}
    /\ w_last = 0
    /\ w_pc = [w \in Workers |-> "idle"]
    /\ w_wake = [w \in Workers |-> 0]
    /\ w_calls = [w \in Workers |-> 0]
    /\ w_prevIssue = -1
    /\ w_gap = -1

NextWait ==
    \/ \E w \in Workers : WCall(w)
    \/ \E w \in Workers : WWake(w)
    \/ WTick

SpecWait == InitWait /\ [][NextWait]_vars

\* ----------------------------------- hamming_distance / are_similar_images
\* hex hash strings of up to MaxHashBytes bytes, the empty string included
ByteValues == {0, 15, 255}
HashInputs == UNION {[1..n -> ByteValues] : n \in 0..MaxHashBytes}
Thresholds == {0, 5, 8, 10}

HashIdle ==
    UNCHANGED <<limiterVars, taskVars, mainPc, report, faults, ghostVars, mmmVars,
                rerunVars, itemVars, rateVars, waitVars, auxVars>>

\* hamming_distance(h_1, h_2) and are_similar_images(h_1, h_2, threshold)
HCompare ==
    /\ ~h_done
    /\ h_distance' = hamming_distance(h_1, h_2)
    /\ h_similar' = are_similar_images(h_1, h_2, h_threshold)
    /\ h_done' = TRUE
    /\ UNCHANGED <<h_1, h_2, h_threshold>>
    /\ HashIdle

InitHash ==
    /\ LimiterInit(maxConcurrency)
    /\ TasksInit
    /\ AuxInit
    /\ GhostInit
    /\ MMMInit
    /\ RerunInit
    /\ ItemInit
    /\ RateInit
    /\ WaitInit
    /\ h_1 \in HashInputs
    /\ h_2 \in HashInputs
    /\ h_threshold \in Thresholds
    /\ h_distance = -1
    /\ h_similar = FALSE
    /\ h_done = FALSE

NextHash == HCompare

SpecHash == InitHash /\ [][NextHash]_vars

\* --------------------------- save_hash_manifest / load_hash_manifest (JSON)
\* The manifest file is the text json.dump wrote: the members of the object
\* in order, and whether the text is complete.  An entry is stood for by its
\* file name (its other fields are hex strings, a timestamp and an integer).
\* A file name is plain ASCII, has non-ASCII characters, or carries a lone
\* surrogate (what Path.name gives for a name that is not valid UTF-8).
ShaKeys == <<"sha_a", "sha_b">>
Shas == {ShaKeys[i] : i \in 1..Len(ShaKeys)}
FileNames == {"ascii", "non_ascii", "surrogate"}

\* the empty manifest load_hash_manifest makes up
empty_manifest(now) ==
    [version |-> "1.0", created_at |-> now, updated_at |-> now,
     hashes |-> [k \in Shas |-> ""]]

\* json.dump(manifest): the members of "hashes" in the order of the keys
RECURSIVE dump_hashes(_, _)
dump_hashes(hashes, keys) ==
    IF keys = <<>> THEN <<>>
    ELSE (IF hashes[Head(keys)] # "" THEN <<<<Head(keys), hashes[Head(keys)]>>>>
          ELSE <<>>) \o dump_hashes(hashes, Tail(keys))

\* json.dump(manifest, f, indent=2, ensure_ascii=False)
json_dump(manifest) ==
    << <<"version", manifest.version>>, <<"created_at", manifest.created_at>>,
       <<"updated_at", manifest.updated_at>> >>
    \o dump_hashes(manifest.hashes, ShaKeys)

\* the text file is opened with encoding="utf-8": a lone surrogate cannot
\* be encoded
encodable(member) == ~(member[1] \in Shas /\ member[2] = "surrogate")

\* what is on disk after the write: all the members, or, when the encoder
\* raised UnicodeEncodeError, the members before the one it raised on
RECURSIVE written(_)
written(members) ==
    IF members = <<>> \/ ~encodable(Head(members)) THEN <<>>
    ELSE <<Head(members)>> \o written(Tail(members))

\* json.load: the object the members make up
json_load(members) ==
    LET value(k) == members[CHOOSE i \in 1..Len(members) : members[i][1] = k][2]
        has(k) == \E i \in 1..Len(members) : members[i][1] = k
    IN  [version |-> value("version"), created_at |-> value("created_at"),
         updated_at |-> value("updated_at"),
         hashes |-> [k \in Shas |-> IF has(k) THEN value(k) ELSE ""]]

\* load_hash_manifest on the file: absent, or text that does not parse,
\* gives the empty manifest
load_manifest_file(file, now) ==
    IF ~file.exists THEN empty_manifest(now)
    ELSE IF ~file.complete THEN empty_manifest(now)
    ELSE json_load(file.members)

JsonIdle ==
    UNCHANGED <<limiterVars, taskVars, mainPc, report, faults, ghostVars, mmmVars,
                rerunVars, itemVars, rateVars, waitVars, hashVars, failVars,
                pauseVars>>

\* manifest = load_hash_manifest(folder)
JLoad ==
    /\ j_manifest' = load_manifest_file(j_file, j_now)
    /\ j_op' = "load"
    /\ UNCHANGED <<j_file, j_saved, j_now>>
    /\ JsonIdle

\* add_to_manifest(manifest, file_path, sha256, phash)
JAdd(sha256, filename) ==
    /\ j_manifest # NoManifest
    /\ j_manifest' = [j_manifest EXCEPT !.hashes[sha256] = filename]
    /\ j_op' = "add"
    /\ UNCHANGED <<j_file, j_saved, j_now>>
    /\ JsonIdle

\* save_hash_manifest(folder, manifest)
JSave ==
    /\ j_manifest # NoManifest
    /\ LET manifest == [j_manifest EXCEPT !.updated_at = j_now]
           members == json_dump(manifest)
       IN  /\ j_manifest' = manifest
           /\ j_saved' = manifest
           /\ j_file' = [exists |-> TRUE, members |-> written(members),
                         complete |-> written(members) = members]
           /\ j_op' = IF written(members) = members THEN "save"
                      ELSE "save_raised"
    /\ UNCHANGED j_now
    /\ JsonIdle

\* datetime.now() moves on
JTick ==
    /\ j_now < MaxStamp
    /\ j_now' = j_now + 1
    /\ UNCHANGED <<j_manifest, j_file, j_saved, j_op>>
    /\ JsonIdle

InitManifest ==
    /\ LimiterInit(maxConcurrency)
    /\ TasksInit
    /\ GhostInit
    /\ MMMInit
    /\ RerunInit
    /\ ItemInit
    /\ RateInit
    /\ WaitInit
    /\ HashInit
    /\ JsonInit
    /\ FailInit
    /\ PauseInit

NextManifest ==
    \/ JLoad
    \/ \E k \in Shas : \E n \in FileNames : JAdd(k, n)
    \/ JSave
    \/ JTick

SpecManifest == InitManifest /\ [][NextManifest]_vars

\* ---------------- a failed remote call, reported (copilot.py, annotate.py)
\* analyze_image_async reads the error text of the session; no retry-after
\* value of the service is read from it
server_hint == NoHint

\* consecutive_failures of the RateLimiter the Concurrency Limiter consults
limiter_failures == IF f_wraps THEN f_failures ELSE f_own

ReportIdle ==
    UNCHANGED <<limiterVars, taskVars, mainPc, report, faults, ghostVars, mmmVars,
                rerunVars, itemVars, rateVars, waitVars, hashVars, jsonVars,
                pauseVars>>

\* analyze_image_async: the error text names a rate limit;
\* wait_time = _rate_limiter.record_failure();
\* raise RateLimitError(..., retry_after=wait_time)
FRateLimited(j) ==
    /\ f_pc = "calling"
    /\ f_failedCalls < MaxFailedCalls
    /\ f_failures' = rl_record_failure(f_failures)
    /\ f_retry_after' = failure_wait(rl_record_failure(f_failures), NoHint,
                                     FALSE, j, min_delay, max_delay)
    /\ f_pc' = "rate_limit_raised"
    /\ f_failedCalls' = f_failedCalls + 1
    /\ UNCHANGED <<f_own, f_wraps, f_passed, f_wait>>
    /\ ReportIdle

\* analyze_image_async: the error text names a server error;
\* _rate_limiter.record_failure(is_server_error=True); raise ServerError(...)
FServerError(j) ==
    /\ f_pc = "calling"
    /\ f_failedCalls < MaxFailedCalls
    /\ f_failures' = rl_record_failure(f_failures)
    /\ f_retry_after' = NoHint
    /\ f_pc' = "server_error_raised"
    /\ f_failedCalls' = f_failedCalls + 1
    /\ UNCHANGED <<f_own, f_wraps, f_passed, f_wait>>
    /\ ReportIdle

\* the RateLimiter the limiter consults records a failure with the hint it
\* was given and returns the wait
limiter_record_failure(retry_after, is_server_error, j) ==
    /\ IF f_wraps
       THEN f_failures' = rl_record_failure(f_failures) /\ f_own' = f_own
       ELSE f_own' = rl_record_failure(f_own) /\ f_failures' = f_failures
    /\ f_wait' = failure_wait(rl_record_failure(limiter_failures), retry_after,
                              is_server_error, j, min_delay, max_delay)
    /\ f_passed' = retry_after

\* except RateLimitError as e:
\*     wait_time = await limiter.record_rate_limit(retry_after=e.retry_after)
FRecordRateLimit(j) ==
    /\ f_pc = "rate_limit_raised"
    /\ limiter_record_failure(f_retry_after, FALSE, j)
    /\ f_pc' = "calling"
    /\ UNCHANGED <<f_wraps, f_retry_after, f_failedCalls>>
    /\ ReportIdle

\* except ServerError as e: wait_time = await limiter.record_server_error()
FRecordServerError(j) ==
    /\ f_pc = "server_error_raised"
    /\ limiter_record_failure(NoHint, TRUE, j)
    /\ f_pc' = "calling"
    /\ UNCHANGED <<f_wraps, f_retry_after, f_failedCalls>>
    /\ ReportIdle

\* the remote call succeeds: _rate_limiter.record_success() in
\* analyze_image_async, then `await limiter.record_success()`
FSucceeded ==
    /\ f_pc = "calling"
    /\ f_failedCalls > 0
    /\ f_failures' = rl_record_success(f_failures)
    /\ f_own' = rl_record_success(f_own)
    /\ f_failedCalls' = 0
    /\ UNCHANGED <<f_pc, f_wraps, f_retry_after, f_passed, f_wait>>
    /\ ReportIdle

\* the limiter wraps the module-level RateLimiter of copilot.py or one of
\* its own
InitReport ==
    /\ LimiterInit(maxConcurrency)
    /\ TasksInit
    /\ GhostInit
    /\ MMMInit
    /\ RerunInit
    /\ ItemInit
    /\ RateInit
    /\ WaitInit
    /\ HashInit
    /\ JsonInit
    /\ f_pc = "calling"
    /\ f_failures = 0
    /\ f_own = 0
    /\ f_wraps \in BOOLEAN
    /\ f_retry_after = NoHint
    /\ f_passed = NoHint
    /\ f_wait = NoHint
    /\ f_failedCalls = 0
    /\ PauseInit

NextReport ==
    \/ \E j \in JitterDraws : FRateLimited(j)
    \/ \E j \in JitterDraws : FServerError(j)
    \/ \E j \in JitterDraws : FRecordRateLimit(j)
    \/ \E j \in JitterDraws : FRecordServerError(j)
    \/ FSucceeded

SpecReport == InitReport /\ [][NextReport]_vars

\* ------------------------- workers and the pauses of the limiter, on a clock
\* Workers of one batch go through acquire / remote call / release and the
\* record calls; the clock counts time in units of the shortest pause.  The
\* worker's own attempt counter plays no part: the error responses of the
\* service are fewer than max_retries.
Acquirers == 1..NumAcquirers

\* the wait durations the wrapped RateLimiter returns
PauseWaits == {1, 3}

\* variant: the resume deadline is the one of the latest record call
resume_deadline_of_last_call(deadline, now, wait) == now + wait

\* the resume deadline after a record call made at `now` that pauses the
\* limiter for `wait`: nobody acquires for that duration, nor before the
\* deadline of a pause already running
resume_deadline(deadline, now, wait) == Max2(deadline, now + wait)

\* variant: a pause that nothing ends
pause_over_never(deadline, now) == FALSE

\* the resume deadline of the pause is reached
pause_over(deadline, now) == now >= deadline

\* a cool-down of some worker, or the pause, has not ended yet
time_awaited ==
    \/ p_now < p_resumeAt
    \/ \E w \in Acquirers : p_now < p_until[w]

PauseIdle ==
    UNCHANGED <<taskVars, mainPc, report, faults, ghostVars, mmmVars, rerunVars,
                itemVars, rateVars, waitVars, hashVars, jsonVars, failVars>>

\* await limiter.acquire() returns; the remote call is issued
PAcquire(w) ==
    /\ p_pc[w] = "acquiring"
    /\ lim_acquire
    /\ p_pc' = [p_pc EXCEPT ![w] = "holding"]
    /\ UNCHANGED <<p_now, p_resumeAt, p_since, p_until, p_faults>>
    /\ PauseIdle

\* the remote call ends with outcome o; `finally: await limiter.release()`
PRelease(w, o) ==
    /\ p_pc[w] = "holding"
    /\ o # "ok" => p_faults < MaxPauseFaults
    /\ lim_release
    /\ p_pc' = [p_pc EXCEPT ![w] = o]
    /\ p_faults' = IF o = "ok" THEN p_faults ELSE p_faults + 1
    /\ UNCHANGED <<p_now, p_resumeAt, p_since, p_until>>
    /\ PauseIdle

\* await limiter.record_success(); return (image_path, sidecar_path)
PRecordSuccess(w) ==
    /\ p_pc[w] = "ok"
    /\ lim_record_success
    /\ p_pc' = [p_pc EXCEPT ![w] = "done"]
    /\ UNCHANGED <<p_now, p_resumeAt, p_since, p_until, p_faults>>
    /\ PauseIdle

\* the cool-down of worker w that starts now and lasts `wait`
cool_down(w, wait) ==
    /\ p_resumeAt' = resume_deadline(p_resumeAt, p_now, wait)
    /\ p_since' = [p_since EXCEPT ![w] = p_now]
    /\ p_until' = [p_until EXCEPT ![w] = p_now + wait]

\* except RateLimitError: wait_time = await limiter.record_rate_limit(...);
\* the loop goes on to the next attempt, which waits in acquire()
PRecordRateLimit(w, wait) ==
    /\ p_pc[w] = "ratelimit"
    /\ lim_record_rate_limit
    /\ cool_down(w, wait)
    /\ p_pc' = [p_pc EXCEPT ![w] = "acquiring"]
    /\ UNCHANGED <<p_now, p_faults>>
    /\ PauseIdle

\* except ServerError: wait_time = await limiter.record_server_error();
\* await asyncio.sleep(wait_time)
PRecordServerError(w, wait) ==
    /\ p_pc[w] = "server"
    /\ lim_record_server_error
    /\ cool_down(w, wait)
    /\ p_pc' = [p_pc EXCEPT ![w] = "sleeping"]
    /\ UNCHANGED <<p_now, p_faults>>
    /\ PauseIdle

\* asyncio.sleep(wait_time) of the ServerError handler is over
PWake(w) ==
    /\ p_pc[w] = "sleeping"
    /\ p_now >= p_until[w]
    /\ p_pc' = [p_pc EXCEPT ![w] = "acquiring"]
    /\ UNCHANGED <<limiterVars, p_now, p_resumeAt, p_since, p_until, p_faults>>
    /\ PauseIdle

\* the pause ends at its resume deadline
PResume ==
    /\ pause_over(p_resumeAt, p_now)
    /\ lim_resume
    /\ UNCHANGED <<p_now, p_resumeAt, p_pc, p_since, p_until, p_faults>>
    /\ PauseIdle

\* time passes while somebody waits for it
PTick ==
    /\ time_awaited
    /\ p_now' = p_now + 1
    /\ UNCHANGED <<limiterVars, p_resumeAt, p_pc, p_since, p_until, p_faults>>
    /\ PauseIdle

\* ConcurrencyLimiter(max_concurrency = maxConcurrency) and more workers
\* than slots, each about to call acquire()
InitPause ==
    /\ LimiterInit(maxConcurrency)
    /\ TasksInit
    /\ GhostInit
    /\ MMMInit
    /\ RerunInit
    /\ ItemInit
    /\ RateInit
    /\ WaitInit
    /\ HashInit
    /\ JsonInit
    /\ FailInit
    /\ PauseInit

NextPause ==
    \/ \E w \in Acquirers : PAcquire(w)
    \/ \E w \in Acquirers : \E o \in {"ok", "ratelimit", "server"} : PRelease(w, o)
    \/ \E w \in Acquirers : PRecordSuccess(w)
    \/ \E w \in Acquirers : \E wait \in PauseWaits : PRecordRateLimit(w, wait)
    \/ \E w \in Acquirers : \E wait \in PauseWaits : PRecordServerError(w, wait)
    \/ \E w \in Acquirers : PWake(w)
    \/ PResume
    \/ PTick

SpecPause == InitPause /\ [][NextPause]_vars

\* the event loop runs every task that is ready, every holder releases, the
\* clock advances and every pause ends at its deadline
FairPause ==
    /\ \A w \in Acquirers : WF_vars(PAcquire(w))
    /\ \A w \in Acquirers : WF_vars(\E o \in {"ok", "ratelimit", "server"} : PRelease(w, o))
    /\ \A w \in Acquirers : WF_vars(PRecordSuccess(w))
    /\ \A w \in Acquirers : WF_vars(\E wait \in PauseWaits : PRecordRateLimit(w, wait))
    /\ \A w \in Acquirers : WF_vars(\E wait \in PauseWaits : PRecordServerError(w, wait))
    /\ \A w \in Acquirers : WF_vars(PWake(w))
    /\ WF_vars(PResume)
    /\ WF_vars(PTick)

SpecPauseFair == InitPause /\ [][NextPause]_vars /\ FairPause

\* ------------------------------------------------------------ properties
\* C1: in every reachable state of the batch, whatever the interleaving of
\* acquire, release and the record calls of the workers, the number of held
\* slots does not exceed the current size of the pool:
\* activeTasks <= currentConcurrency.
C1_ActiveWithinConcurrency == activeTasks <= currentConcurrency

\* C2: every acquired slot is released exactly once on every exit path of an
\* attempt: no task ever holds more than one slot or fewer than none, a task
\* that has terminated (returned or cancelled) holds none, activeTasks is
\* never negative, and it is 0 once every task of the batch has terminated.
C2_SlotReleasedExactlyOnce ==
    /\ activeTasks >= 0
    /\ \A t \in Tasks : slots[t] \in {0, 1}
    /\ \A t \in Tasks : Terminal(t) => slots[t] = 0
    /\ (\A t \in Tasks : Terminal(t)) => activeTasks = 0

\* C3: a task cancelled while it is suspended inside acquire() consumes no
\* slot: its cancellation completes without an acquire or a release of its
\* own (so activeTasks is what it was and the slots of the other tasks stay
\* held).
C3_CancelledAcquireTakesNoSlot ==
    \A t \in Tasks :
        cancelledAt[t] = "acquire" => pc[t] = "cancelled" /\ slots[t] = 0

\* C3 witness: a task was cancelled inside acquire() while another task holds
\* the slot it was waiting for
C3_Witness ==
    \E t \in Tasks : \E u \in Tasks \ {t} :
        /\ cancelledAt[t] = "acquire" /\ pc[t] = "cancelled"
        /\ slots[u] = 1 /\ activeTasks = currentConcurrency

\* C4: an image is given up on after a rate-limit or server error exactly
\* when its own attempt counter reaches the bound, whatever the shared
\* counter of consecutive failures says: an image that was given up on after
\* a retryable error has made max_retries remote calls.
C4_RetryDecisionIsLocal ==
    \A i \in Images :
        m_status[i] \in {"FailedRateLimit", "FailedServer"}
              => m_calls[i] = max_retries

\* C5: every recordRateLimit call lowers currentConcurrency by exactly 1
\* while it is above minConcurrency and leaves it at minConcurrency once the
\* floor is reached; it is never below minConcurrency.
C5_RateLimitReducesByOne ==
    /\ currentConcurrency >= minConcurrency
    /\ lastOp = "ratelimit" =>
          currentConcurrency =
             (IF prevConcurrency > minConcurrency
              THEN prevConcurrency - 1 ELSE minConcurrency)

\* C5 witness: a recordRateLimit call made at the floor, after one that
\* lowered the pool to it
C5_Witness ==
    /\ lastOp = "ratelimit"
    /\ prevConcurrency = minConcurrency
    /\ currentConcurrency = minConcurrency
    /\ poolMax > minConcurrency

\* C6: minConcurrency <= currentConcurrency <= maxConcurrency in every state
\* (currentConcurrency = maxConcurrency after construction), and no single
\* record call changes currentConcurrency by more than 1.
C6_ConcurrencyBounded ==
    /\ minConcurrency <= currentConcurrency
    /\ currentConcurrency <= poolMax
    /\ lastOp = "none" => currentConcurrency = poolMax
    /\ currentConcurrency - prevConcurrency \in {-1, 0, 1}
    /\ lastOp \in {"acquire", "release", "resume"} =>
          currentConcurrency = prevConcurrency

\* C6 witness: a pool of three or more slots was taken down to the floor and
\* a record call has just changed its size
C6_Witness ==
    /\ poolMax >= 3
    /\ prevConcurrency = minConcurrency
    /\ currentConcurrency = minConcurrency + 1
    /\ lastOp = "success"

\* C7: the first and the second server error in a row leave
\* currentConcurrency as it is; the third lowers it by 1, floored at
\* minConcurrency.
C7_ServerErrorThreshold ==
    lastOp = "servererror" =>
        /\ prevServerErrors + 1 < serverErrorThreshold =>
              currentConcurrency = prevConcurrency
        /\ prevServerErrors + 1 = serverErrorThreshold =>
              currentConcurrency = Max2(minConcurrency, prevConcurrency - 1)

\* C7 witness: the third server error in a row has just lowered the pool
C7_Witness ==
    /\ lastOp = "servererror"
    /\ prevServerErrors + 1 = serverErrorThreshold
    /\ currentConcurrency = prevConcurrency - 1

\* C8: after a reduction, a recordSuccess call restores one slot when it
\* completes the configured run of successes and not before, and
\* currentConcurrency never exceeds maxConcurrency.
C8_RestoreAfterSuccessRun ==
    /\ currentConcurrency <= poolMax
    /\ lastOp = "success" =>
          /\ prevSuccesses + 1 < restoreThreshold =>
                currentConcurrency = prevConcurrency
          /\ (prevSuccesses + 1 = restoreThreshold /\ prevConcurrency < poolMax) =>
                /\ currentConcurrency = prevConcurrency + 1
                /\ successesSinceReduction = 0

\* C8 witness: the success that completes the run has just restored a slot
C8_Witness ==
    /\ lastOp = "success"
    /\ prevSuccesses + 1 = restoreThreshold
    /\ currentConcurrency = prevConcurrency + 1

\* C9: a recordRateLimit or recordServerError call leaves the limiter
\* paused, and while it is paused no acquire() completes, free slot or not:
\* no call made while paused raises activeTasks.
C9_NoAcquireWhilePaused ==
    /\ lastOp \in {"ratelimit", "servererror"} => isPaused
    /\ lastOp = "acquire" => ~prevPaused
    /\ (prevPaused /\ lastOp # "none") => activeTasks <= prevActive

\* C9 witness: a holder has released its slot during a pause, and the free
\* slot stays free
C9_Witness ==
    /\ lastOp = "release"
    /\ prevPaused /\ isPaused
    /\ activeTasks < currentConcurrency
    /\ activeTasks = prevActive - 1

C11_AuthIsFatal ==
    [][\A t \in Tasks :
          outcome[t] = "auth" =>
             /\ calls'[t] <= calls[t] /\ pc'[t] # "acquiring"
             /\ \A u \in Tasks : ~(pc[u] = "acquiring" /\ pc'[u] = "inflight")]_vars

\* C12: a batch that has started processing ends, by whatever path, with
\* the report of its succeeded, failed and not-started counts: whenever
\* the batch is over (finalized or aborted) the report has been made.
C12_BatchAlwaysReports ==
    mainPc \in {"finalized", "aborted"} => report # "none"

\* C13: on an interruption a task whose remote call is outstanding finishes
\* that attempt (its call ends with a response, never with a cancellation),
\* and only tasks that have issued no remote call yet end cancelled.
C13_InFlightNotCancelled ==
    [][\A t \in Tasks :
          /\ (pc[t] = "inflight" /\ pc'[t] # "inflight") => outcome'[t] # "cancel"
          /\ (pc[t] # "cancelled" /\ pc'[t] = "cancelled") => calls[t] = 0]_vars

\* C15: when the batch result is finalized every task has terminated, no
\* item is both succeeded and failed, the reported counts are those of the
\* succeeded and of the failed items, and succeeded + failed + not-started
\* is the number of items fanned out.
C15_ReportPartitionsItems ==
    mainPc = "finalized" =>
        /\ \A t \in Tasks : Terminal(t)
        /\ processed \cap errors = {}
        /\ report.succeeded = Cardinality({t \in Tasks : Status(t) = "Succeeded"})
        /\ report.failed = Cardinality({t \in Tasks : Status(t) = "Failed"})
        /\ report.notStarted = Cardinality({t \in Tasks : Status(t) = "Cancelled"})
        /\ report.succeeded + report.failed + report.notStarted = NumTasks

\* C15 witness: an interrupted batch was finalized with one item succeeded,
\* one failed and one not started
C15_Witness ==
    /\ mainPc = "finalized"
    /\ report.succeeded = 1 /\ report.failed = 1 /\ report.notStarted = 1

\* the image has no exact and no near duplicate among the other images
NotDuplicateOfOther(f) ==
    \A g \in Files \ {f} :
        /\ compute_sha256(g) # compute_sha256(f)
        /\ ~are_similar_images(compute_phash(g), compute_phash(f),
                               similarityThreshold)

\* C14: in the run that follows an interrupted or partially failed run
\* (skip-existing mode, deduplication on, the manifest the previous run
\* saved), every image that ended the previous run without a sidecar and is
\* not a duplicate of a different image is in the work queue.
C14_RerunTargetsUnfinished ==
    (d_run >= 2 /\ d_phase = "processing") =>
        \A f \in d_unfinished : NotDuplicateOfOther(f) => f \in d_work

\* C16: a response that does not parse is retried for the same item: an
\* item that failed on a malformed response has made more than one remote
\* call before.
C16_MalformedIsRetried ==
    (i_status = "Failed" /\ i_resp.kind = "result" /\ i_resp.body = "malformed")
        => i_calls >= 2

\* C17: a remote call that runs into its timeout counts as a retryable
\* error: an item fails on a timeout only when its attempt bound is used up.
C17_TimeoutIsRetryable ==
    (i_status = "Failed" /\ i_resp.kind = "timeout") => i_calls = max_retries

\* what the status of an error of the service stands for
StatusClass(c) ==
    IF c \in AuthStatuses THEN "auth"
    ELSE IF c = 429 THEN "ratelimit"
    ELSE IF c \in ServerStatuses THEN "server"
    ELSE "other"

\* C18: an error of the remote service is classified by its status class,
\* by both command line tools: 401/403 is an authentication failure, 429 a
\* rate limit, 500/502/503/504 a server error, whatever its text says.
C18_ClassifiedByStatus ==
    /\ i_resp.kind = "error" => i_class = StatusClass(i_resp.status)
    /\ i_mresp.kind = "error" => i_mclass = StatusClass(i_mresp.status)

\* C19: in every reachable state of the Rate Limiter, built with any
\* minDelay <= maxDelay and after any sequence of recordSuccess and
\* recordFailure calls, hinted or not: minDelay <= currentDelay <= maxDelay.
C19_DelayWithinBounds ==
    r_min <= r_delay /\ r_delay <= r_max

\* C20: the wait time recordFailure returns is within [minDelay, maxDelay],
\* for every failure count, for rate limits and server errors, for every
\* jitter draw, with and without a retry-after hint.
C20_WaitWithinBounds ==
    r_op \in {"ratelimit", "server", "hinted"} =>
        r_min <= r_wait /\ r_wait <= r_max

\* C21: over successive un-hinted recordFailure calls of one kind with no
\* success in between, the jitter-free wait never decreases, and it no
\* longer grows once consecutiveFailures has reached max_backoff_attempts.
C21_BackoffMonotoneThenFlat ==
    r_prevBase # NoHint =>
        /\ r_prevBase <= r_base
        /\ r_failures - 1 >= max_backoff_attempts => r_base = r_prevBase

\* the ninth rate limit in a row, with the default delays: the exponent, not
\* max_delay, is what stops the growth
C21_Witness ==
    /\ r_op = "ratelimit"
    /\ r_failures = max_backoff_attempts + 1
    /\ r_prevBase # NoHint
    /\ r_base = r_prevBase
    /\ r_base < r_max

\* C22: a recordFailure call with a retry-after hint returns hint * 1.1
\* whatever the failure count, leaves currentDelay >= that wait, counts one
\* more consecutive failure and records a failure in the outcome window.
C22_HintedFailure ==
    r_op = "hinted" =>
        /\ r_wait = (r_hint * 11) \div 10
        /\ r_delay >= r_wait
        /\ r_failures = r_run
        /\ r_failures >= 1
        /\ r_window # <<>>
        /\ r_window[Len(r_window)] = FALSE

\* a hinted failure after several un-hinted ones, with a hint that is
\* shorter than the backoff would have been
C22_Witness ==
    /\ r_op = "hinted"
    /\ r_failures = 4
    /\ r_hint = min_delay
    /\ r_wait = 11
    /\ r_delay > r_wait

\* C23: recordSuccess resets consecutiveFailures to 0 and sets currentDelay
\* to max(minDelay, 0.9 x currentDelay); the delay never increases on a
\* success and never falls below minDelay.
C23_SuccessRelaxesDelay ==
    r_op = "success" =>
        /\ r_failures = 0
        /\ r_delay = Max2(r_min, (r_before * 9) \div 10)
        /\ r_delay <= r_before
        /\ r_delay >= r_min

\* C24: shouldGiveUp() is true exactly when the failures recorded since the
\* last success (or since construction) number at least
\* max_backoff_attempts; it is false right after any recordSuccess.
C24_GiveUpAtCeiling ==
    /\ should_give_up(r_failures) <=> r_run >= max_backoff_attempts
    /\ r_op = "success" => ~should_give_up(r_failures)

\* the failure that reaches the ceiling has just been recorded
C24_Witness ==
    /\ r_op \in {"ratelimit", "server", "hinted"}
    /\ r_run = max_backoff_attempts
    /\ should_give_up(r_failures)

\* the contents a manifest has an entry for
Entries(manifest) == {c \in Contents : manifest[c] # 0}

\* the image has the content hash of one of the entries, or a perceptual
\* hash within the threshold of one of them
MatchesEntry(f, entries) ==
    \E c \in entries :
        \/ c = compute_sha256(f)
        \/ are_similar_images(compute_phash(f), phash_of(c), similarityThreshold)

\* the images of a batch that match neither an entry of the manifest nor an
\* earlier image of the batch that was kept
RECURSIVE NotMatching(_, _, _)
NotMatching(images, entries, kept) ==
    IF images = <<>> THEN kept
    ELSE LET f == Head(images)
         IN  IF MatchesEntry(f, entries)
             THEN NotMatching(Tail(images), entries, kept)
             ELSE NotMatching(Tail(images), entries \cup {compute_sha256(f)},
                              kept \cup {f})

\* C26: an image is left out of the work queue exactly when its content
\* hash equals, or its perceptual hash is within the threshold of, an entry
\* of the manifest as loaded or an earlier image of the batch, for every
\* entry of the manifest, its file present in the output directory or not.
C26_ExcludedIffDuplicate ==
    d_phase = "processing" =>
        d_work = NotMatching(d_cands, Entries(d_loaded), {})

\* C27: deduplicate_images adds a manifest entry for every unique image and
\* none for a duplicate: the entry under the hash of a unique image names
\* that image, every other entry is as it was loaded; from an empty
\* manifest there are as many entries as images in the work queue.
C27_EntryPerUniqueImage ==
    (d_phase = "processing" /\ d_cands # <<>>) =>
        /\ \A f \in d_work : d_manifest[compute_sha256(f)] = f
        /\ \A c \in Contents \ {compute_sha256(f) : f \in d_work} :
               d_manifest[c] = d_loaded[c]
        /\ Entries(d_loaded) = {} =>
               Cardinality(Entries(d_manifest)) = Cardinality(d_work)

\* a first run with two byte-identical images among the candidates: one
\* entry per image of the queue, none for the copy
C27_Witness ==
    /\ d_phase = "processing" /\ d_run = 1
    /\ Entries(d_loaded) = {}
    /\ Cardinality(d_work) >= 2
    /\ Cardinality(Entries(d_manifest)) = Cardinality(d_work)
    /\ \E f \in d_work : \E g \in SeqToSet(d_cands) \ d_work :
           compute_sha256(f) = compute_sha256(g)

\* f is the first candidate with its bytes and g a later one with the same
FirstAndCopy(f, g) ==
    /\ f \in SeqToSet(d_cands) /\ g \in SeqToSet(d_cands)
    /\ f < g
    /\ d_bytes[f] = d_bytes[g]
    /\ \A e \in SeqToSet(d_cands) : d_bytes[e] = d_bytes[f] => f <= e

C30_ManifestLoadNeverFatal ==
    d_phase # "crashed"

\* C25: wait_if_needed keeps the requests of all the workers that share the
\* RateLimiter apart: any two requests it lets through, one after the
\* other, are at least the current delay apart.
C25_RequestsSpacedByDelay ==
    w_gap # -1 => w_gap >= r_delay

\* the number of bit positions in which two hashes of one length differ
DifferingBits(h1, h2) ==
    Cardinality({p \in (1..Len(h1)) \X (0..7) :
                    (h1[p[1]] \div 2 ^ p[2]) % 2 # (h2[p[1]] \div 2 ^ p[2]) % 2})

\* C29: two perceptual hashes are near-duplicates exactly when both are
\* non-empty, of equal length, and their Hamming distance is at most the
\* threshold; with threshold 10 a distance of 8 is similar and one of 12 is
\* not; an empty hash or hashes of different lengths are never similar.
C29_SimilarIffWithinThreshold ==
    h_done =>
        /\ h_similar <=> /\ h_1 # <<>> /\ h_2 # <<>>
                         /\ Len(h_1) = Len(h_2)
                         /\ DifferingBits(h_1, h_2) <= h_threshold
        /\ (h_1 = <<255>> /\ h_2 = <<0>> /\ h_threshold = 10) =>
               (h_distance = 8 /\ h_similar)
        /\ (h_1 = <<255, 15>> /\ h_2 = <<0, 0>> /\ h_threshold = 10) =>
               (h_distance = 12 /\ ~h_similar)
        /\ (h_1 = <<>> \/ h_2 = <<>> \/ Len(h_1) # Len(h_2)) => ~h_similar

\* "ff" against "00" with the threshold 10: 8 bits apart, similar
C29_Witness ==
    /\ h_done
    /\ h_1 = <<255>> /\ h_2 = <<0>> /\ h_threshold = 10
    /\ h_distance = 8 /\ h_similar

\* C31: the manifest round-trips: load_hash_manifest after
\* save_hash_manifest on the same folder returns the version, created_at
\* and hash entries of the manifest that was saved, over any number of
\* save/load cycles (updated_at may differ).
C31_ManifestRoundTrips ==
    (j_op = "load" /\ j_saved # NoManifest) =>
        /\ j_manifest.version = j_saved.version
        /\ j_manifest.created_at = j_saved.created_at
        /\ j_manifest.hashes = j_saved.hashes

\* C32: dedupe keeps the first image of every duplicate set and deletes
\* only the others, over any sequence of runs: an image reported as a
\* duplicate is never the same file as its reported original, and of every
\* set of mutually duplicate images at least one is still in the folder.
C32_DedupeKeepsOneOfEach ==
    d_phase = "idle" =>
        /\ \A f \in Files : d_exact[f] # f /\ f \notin d_near[f]
        /\ \A f \in Files : \E g \in d_present :
               \/ compute_sha256(g) = compute_sha256(f)
               \/ are_similar_images(compute_phash(g), compute_phash(f),
                                     similarityThreshold)

\* C36: an image whose perceptual hash cannot be computed has the empty
\* hash and takes part in exact-match deduplication only: it is kept or an
\* exact duplicate, never a near duplicate, no image is a near duplicate of
\* it, and the run goes on to process its work queue.
C36_UndecodableExactOnly ==
    (d_phase = "processing" /\ d_cands # <<>>) =>
        \A f \in SeqToSet(d_cands) :
            compute_phash(f) = <<>> =>
                /\ d_near[f] = {}
                /\ \A g \in Files : f \notin d_near[g]
                /\ (f \in d_work) # (d_exact[f] # 0)

\* an undecodable image is kept, its byte-identical copy is an exact
\* duplicate of it, and a decodable image is in the same batch
C36_Witness ==
    /\ d_phase = "processing"
    /\ \E f \in d_work : \E g, h \in SeqToSet(d_cands) :
           /\ compute_phash(f) = <<>>
           /\ d_exact[g] = f
           /\ compute_phash(h) # <<>>

\* C40: the unique images of one deduplicate_images call are pairwise
\* distinct: no two have the same content hash and, with near-duplicate
\* detection on, no two with non-empty perceptual hashes are within the
\* threshold; every analyzed image is in exactly one of unique_images,
\* exact_duplicates and near_duplicates.
C40_UniquesPairwiseDistinct ==
    (d_phase = "idle" /\ d_run >= 1) =>
        /\ \A f, g \in d_work :
               f # g =>
                   /\ compute_sha256(f) # compute_sha256(g)
                   /\ (d_detectNear /\ compute_phash(f) # <<>>
                                    /\ compute_phash(g) # <<>>) =>
                          ~are_similar_images(compute_phash(f), compute_phash(g),
                                              similarityThreshold)
        /\ \A f \in SeqToSet(d_cands) :
               /\ f \in d_work \/ d_exact[f] # 0 \/ d_near[f] # {}
               /\ ~(f \in d_work /\ d_exact[f] # 0)
               /\ ~(f \in d_work /\ d_near[f] # {})
               /\ ~(d_exact[f] # 0 /\ d_near[f] # {})

\* a call that kept two images, found a near duplicate and an exact one
C40_Witness ==
    /\ d_phase = "idle" /\ d_run >= 1 /\ d_detectNear
    /\ Cardinality(d_work) >= 2
    /\ \E f \in SeqToSet(d_cands) : d_near[f] # {}

\* two un-hinted rate limits recorded one right after the other by a
\* RateLimiter with the default settings
SuccessiveRateLimits ==
    /\ r_min = min_delay /\ r_max = max_delay
    /\ r_op = "ratelimit" /\ r_op' = "ratelimit"
    /\ r_failures' = r_failures + 1

\* C35 as stated: with the default settings, of consecutive rate-limit
\* responses without a hint each wait is strictly longer than the one
\* before, for every jitter draw.
C35_WaitsStrictlyIncrease ==
    [][SuccessiveRateLimits => r_wait' > r_wait]_vars

\* C35: with the default settings, of consecutive rate-limit responses
\* without a hint each wait is strictly longer than the one before, for
\* every jitter draw, as long as the failure count is at most
\* max_backoff_attempts.
C35_WaitsIncreaseUpToCeiling ==
    [][(SuccessiveRateLimits /\ r_failures' <= max_backoff_attempts)
           => r_wait' > r_wait]_vars

\* the third rate limit in a row, drawn 25% short, after a second one drawn
\* 25% long
C35_Witness ==
    /\ r_min = min_delay /\ r_max = max_delay
    /\ r_op = "ratelimit" /\ r_failures = 3 /\ r_run = 3
    /\ r_prevBase # NoHint
    /\ r_wait = with_jitter(base_wait(3, FALSE), -2)
    /\ r_delay = with_jitter(base_wait(3, FALSE), -2)

\* C33: the success counter is reset whenever currentConcurrency changes:
\* the call that lowers or raises the pool leaves the counter at 0, the
\* counter grows by at most 1 per recordSuccess and by nothing else, and a
\* slot is restored only by the recordSuccess that completes a run of
\* restoreThreshold successes counted since the last change.
C33_SuccessRunRestarts ==
    /\ currentConcurrency # prevConcurrency => successesSinceReduction = 0
    /\ successesSinceReduction <=
          prevSuccesses + (IF lastOp = "success" THEN 1 ELSE 0)
    /\ currentConcurrency > prevConcurrency =>
          /\ lastOp = "success"
          /\ prevSuccesses + 1 = restoreThreshold

\* C33 witness: a completed run of successes has just restored one slot of a
\* pool that is still one slot short, so that a new run has to start from 0
C33_Witness ==
    /\ lastOp = "success"
    /\ currentConcurrency = prevConcurrency + 1
    /\ currentConcurrency < poolMax
    /\ successesSinceReduction = 0

\* C37: every image whose sidecar was written during the batch is reported
\* as succeeded, wherever the cancellation arrived: when the batch result is
\* finalized, an item with a written sidecar is among the processed items and
\* the succeeded count is at least the number of written sidecars.
C37_WrittenSidecarIsSucceeded ==
    mainPc = "finalized" =>
        /\ \A t \in Tasks : sidecar[t] => t \in processed
        /\ report.succeeded >= Cardinality({t \in Tasks : sidecar[t]})

\* C38: one failed remote call is one failure of the shared Rate Limiter:
\* once the retry loop has reported the error, consecutive_failures of the
\* RateLimiter of the remote-call wrapper equals the number of failed remote
\* calls since the last success, and the retry-after value the retry loop
\* handed to the limiter is the hint of the service.
C38_OneFailurePerFailedCall ==
    (f_pc = "calling" /\ f_failedCalls > 0) =>
        /\ f_failures = f_failedCalls
        /\ f_passed = server_hint

\* the cool-downs of two workers overlap
Overlapping(v, w) ==
    /\ v # w
    /\ p_since[v] < p_until[w]
    /\ p_since[w] < p_until[v]

\* C39: the limiter stays paused until the later of the resume deadlines of
\* overlapping cool-downs: while a cool-down of any worker has not elapsed
\* the limiter is paused, and no acquire() completes (activeTasks does not
\* grow) before every outstanding cool-down has elapsed.
C39_PausedUntilLastCoolDown ==
    /\ []((\E w \in Acquirers : p_now < p_until[w]) => isPaused)
    /\ [][activeTasks' > activeTasks =>
             \A w \in Acquirers : p_until[w] <= p_now]_vars

\* C39 witness: of two overlapping cool-downs the first has elapsed and the
\* second is still running; a worker waits in acquire() with a slot free and
\* the limiter is still paused
C39_Witness ==
    \E v, w \in Acquirers :
        /\ Overlapping(v, w)
        /\ p_until[v] <= p_now
        /\ p_now < p_until[w]
        /\ p_until[v] < p_until[w]
        /\ isPaused
        /\ activeTasks < currentConcurrency
        /\ \E u \in Acquirers : p_pc[u] = "acquiring"

\* C34: acquire() never blocks forever: with more workers than slots, every
\* holder releasing, every pause ending at its deadline and fair scheduling,
\* every worker waiting in acquire() eventually holds a slot, and every
\* worker eventually completes.
C34_AcquireNeverBlocksForever ==
    \A w \in Acquirers :
        /\ (p_pc[w] = "acquiring") ~> (p_pc[w] = "holding")
        /\ <>(p_pc[w] = "done")

\* C34 witness: every worker has completed although the pool was reduced
\* below the number of workers by error responses and pauses have passed
C34_Witness ==
    /\ \A w \in Acquirers : p_pc[w] = "done"
    /\ currentConcurrency < poolMax
    /\ p_faults = MaxPauseFaults
    /\ p_now > 0
    /\ ~isPaused

====
